---- MODULE Spec2Model ----
\* Event and scheduling core of the starship simulator:
\* EventQueue (engine/m02_events/queue.py), SubscriptionBroker
\* (engine/m02_events/subscriptions.py), scheduling policies
\* (engine/m02_events/scheduling.py), Event model (engine/m02_events/models.py),
\* seeded PRNG (engine/lib/rng.py) and the spawn commands of tools/evt.py.
EXTENDS Integers, Sequences, FiniteSets, TLC

VARIABLES
    capacity,       \* EventQueue.capacity
    events,         \* EventQueue._events: id -> Event record (ids of stored events)
    order,          \* insertion order of the keys of EventQueue._events
    by_category,    \* EventQueue._by_category: category -> list of ids
    by_scope,       \* EventQueue._by_scope: scope -> list of ids
    subscriptions,  \* SubscriptionBroker._subscriptions: actor -> set of scopes
    sub_order,      \* insertion order of the keys of _subscriptions
    personal,       \* SubscriptionBroker._personal: actor -> heap of keys
    clock,          \* utc_ms_now()
    last,           \* the last call made and its outcome
    replay,         \* a second, independent run of the same calls: its world and clock
    request,        \* the last unsubscribe or harness subscribe request: actor, scopes
    files,          \* the saves directory: file name -> content
    saving,         \* the JsonSaveStore.save call in progress and where it stands
    source,         \* tick of the snapshot SnapshotSource.get_latest returns
    limit,          \* AutoSaver.limit
    recorded,       \* actor -> (event id -> the key of the event's first push)
    rng             \* a seed_for call: its arguments and the PRNG it returns

vars == <<capacity, events, order, by_category, by_scope, subscriptions,
          sub_order, personal, clock, last, replay, request, files, saving,
          source, limit, recorded, rng>>

\* the keys recorded at first push and the seed_for call under study
aux == <<recorded, rng>>

\* the saves directory and the autosaver working on it
persist == <<files, saving, source, limit>>

-----------------------------------------------------------------------------
\* Bounds of the model

MaxEvents == 2          \* events a run may create
MaxPreemptEvents == 3   \* events a run of SpecPreempt may create
MaxCapacity == 2        \* largest EventQueue capacity tried
MaxIndex == 2           \* publish calls stop once an index list is this long
MaxCopies == 1          \* update calls with a copy stop once an audit log is this long
MaxAudit == 6           \* lifecycle calls stop once an audit log is this long
MaxHeap == 4            \* on_publish calls stop once a heap is this long
HashBits == 4           \* width of the digest and of the PRNG seed (64 in the code)
MaxIds == 2             \* most identifiers passed to one seed_for call
ClaimTtlS == 1          \* the claim_ttl_s passed to check_claim_ttl
StartMs == 1000         \* utc_ms_now() during the run
MaxPriority == 100      \* priorities tried by effective_priority: 0..MaxPriority
MaxWaitS == 3060        \* longest wait tried by effective_priority, in seconds

\* Program constants

Inf == 999999           \* math.inf as a deadline key
DefaultLimit == 10      \* AutoSaver.limit default
DefaultCapacity == 10000  \* EventQueue() as the harness builds it
AGING_S == 120          \* seconds of waiting before aging starts
STEP_S == 30            \* seconds of waiting per point of aging
MIN_PRIORITY == 5       \* the floor of an aged priority

-----------------------------------------------------------------------------
\* Domains

Actors == {"alice", "bob"}
None == "None"
NoCategory == ""
Scopes == {"shipwide", "officers", "private:alice", "department:engineering"}
Categories == {"alerts", "crew_admin", "engineering", "bridge"}
States == {"queued", "routed", "claimed", "active", "suspended",
           "done", "failed", "expired", "cancelled"}
Terminal == {"done", "failed", "expired", "cancelled"}
Ids == 1..MaxEvents
PreemptIds == 1..MaxPreemptEvents
Seeds == {123}

Range(s) == {s[i] : i \in 1..Len(s)}

RECURSIVE RemoveAll(_, _)
\* a removal that drops every occurrence
RemoveAll(s, x) ==
    IF s = <<>> THEN <<>>
    ELSE IF Head(s) = x THEN RemoveAll(Tail(s), x)
    ELSE <<Head(s)>> \o RemoveAll(Tail(s), x)

RECURSIVE RemoveFirst(_, _)
\* list.remove(x): drops the first occurrence (the callers test membership first)
RemoveFirst(s, x) ==
    IF s = <<>> THEN <<>>
    ELSE IF Head(s) = x THEN Tail(s)
    ELSE <<Head(s)>> \o RemoveFirst(Tail(s), x)

-----------------------------------------------------------------------------
\* engine/lib/rng.py

RECURSIVE Xor(_, _, _)
\* bitwise exclusive or of two naturals below 2^n
Xor(a, b, n) ==
    IF n = 0 THEN 0
    ELSE (((a % 2) + (b % 2)) % 2) + 2 * Xor(a \div 2, b \div 2, n - 1)

\* _stable_hash(obj): a fixed digest per object (blake2b of its repr), reduced to
\* HashBits bits; one table for actor ids, one for event ids
_stable_hash(actor_id) ==
    (CASE actor_id = "alice" -> 5
       [] actor_id = "bob"   -> 11
       [] OTHER              -> 7) % (2 ^ HashBits)

_stable_hash_id(event_id) ==
    (CASE event_id = 1 -> 9
       [] event_id = 2 -> 6
       [] event_id = 3 -> 12
       [] event_id = 4 -> 3
       [] OTHER        -> 10) % (2 ^ HashBits)

RECURSIVE FoldIds_sum(_, _)
\* a fold that adds the digests instead of XOR-ing them
FoldIds_sum(seed, digests) ==
    IF digests = <<>> THEN seed
    ELSE FoldIds_sum((seed + Head(digests)) % (2 ^ HashBits), Tail(digests))

RECURSIVE FoldIds(_, _)
\* the loop of seed_for: seed ^= _stable_hash(obj), over the digests of the ids
FoldIds(seed, digests) ==
    IF digests = <<>> THEN seed
    ELSE FoldIds(Xor(seed, Head(digests), HashBits), Tail(digests))

\* seed_for(save_seed, *ids): the PRNG state
seed_for(save_seed, digests) == FoldIds(save_seed % (2 ^ HashBits), digests)

\* random.Random(seed).random(): a fixed real in [0,1) per seed, here the
\* numerator of a fraction over 2^HashBits
random(seed) == ((seed * 7) + 3) % (2 ^ HashBits)

tie_break(save_seed, actor_id, event_id) ==
    random(seed_for(save_seed, <<_stable_hash(actor_id), _stable_hash_id(event_id)>>))

-----------------------------------------------------------------------------
\* engine/m02_events/models.py

\* a priority validator one too wide
_validate_priority_wide(v) == 0 <= v /\ v <= 101

_validate_priority(v) == 0 <= v /\ v <= 100
_validate_progress(v) == 0 <= v /\ v <= 100      \* progress in percent
_validate_audience_scope(v) == v # <<>>

\* Event(...): the pydantic validators run at construction only
ValidEvent(f) ==
    /\ _validate_priority(f.priority)
    /\ _validate_progress(f.progress)
    /\ _validate_audience_scope(f.audience_scope)

\* Event.__init__ with the defaults of the model: ts_ms from the clock, state
\* queued, no taker, no audit
Event(id, f) ==
    [id |-> id, ts_ms |-> clock, audience_scope |-> f.audience_scope,
     category |-> f.category, priority |-> f.priority,
     preemptible |-> f.preemptible, deadline |-> Inf, progress |-> f.progress,
     state |-> "queued", taker |-> None, audit |-> <<>>]

append_audit(e, actor_id, action, now) ==
    [e EXCEPT !.audit = Append(@, [ts |-> now, actor_id |-> actor_id, action |-> action])]

\* engine/m02_events/factories.py and the raw constructor: the field values a
\* producer passes
Fields(p, pre, sc, cat, prog) ==
    [priority |-> p, preemptible |-> pre, audience_scope |-> sc, category |-> cat,
     progress |-> prog]

make_red_alert_event == Fields(0, FALSE, <<"shipwide">>, "alerts", 0)
make_sleep_event == Fields(90, TRUE, <<"private:alice">>, "crew_admin", 0)
make_repair_event == Fields(20, TRUE, <<"department:engineering", "officers">>, "engineering", 0)

EventInputs ==
    { make_red_alert_event, make_sleep_event, make_repair_event,
      Fields(50, FALSE, <<"officers">>, NoCategory, 0),
      Fields(101, TRUE, <<"shipwide">>, NoCategory, 0),
      Fields(50, TRUE, <<>>, NoCategory, 0),
      Fields(50, TRUE, <<"shipwide">>, NoCategory, 150) }

-----------------------------------------------------------------------------
\* engine/m02_events/queue.py, on a world record w of the mutable structures

World == [events |-> events, order |-> order, by_category |-> by_category,
          by_scope |-> by_scope, personal |-> personal]

RECURSIVE AppendScopes(_, _, _)
AppendScopes(bs, scopes, id) ==
    IF scopes = <<>> THEN bs
    ELSE AppendScopes([bs EXCEPT ![Head(scopes)] = Append(@, id)], Tail(scopes), id)

RECURSIVE RemoveScopes(_, _, _)
RemoveScopes(bs, scopes, id) ==
    IF scopes = <<>> THEN bs
    ELSE RemoveScopes([bs EXCEPT ![Head(scopes)] = RemoveFirst(@, id)], Tail(scopes), id)

\* the capacity test off by one
publish_rejected_above(evs, cap, e) == Cardinality(DOMAIN evs) > cap

\* the capacity test skipped for an id already stored
publish_rejected_new_id(evs, cap, e) ==
    e.id \notin DOMAIN evs /\ Cardinality(DOMAIN evs) >= cap

\* the capacity test of EventQueue.publish(e)
publish_rejected(evs, cap, e) == Cardinality(DOMAIN evs) >= cap

\* EventQueue.publish(e), capacity test passed
eq_publish(w, e) ==
    [w EXCEPT
       !.events = IF e.id \in DOMAIN w.events
                  THEN [w.events EXCEPT ![e.id] = e]
                  ELSE [i \in DOMAIN w.events \cup {e.id} |->
                          IF i = e.id THEN e ELSE w.events[i]],
       !.order = IF e.id \in DOMAIN w.events THEN @ ELSE Append(@, e.id),
       !.by_category = IF e.category # NoCategory
                       THEN [@ EXCEPT ![e.category] = Append(@, e.id)] ELSE @,
       !.by_scope = AppendScopes(@, e.audience_scope, e.id)]

\* an update that rewrites the priority in the heap entries of the event
eq_update_rekey(w, old, e, now) ==
    LET cat1 == IF old.category # NoCategory
                THEN [w.by_category EXCEPT ![old.category] = RemoveFirst(@, e.id)]
                ELSE w.by_category
        scp1 == RemoveScopes(w.by_scope, old.audience_scope, e.id)
        cat2 == IF e.category # NoCategory
                THEN [cat1 EXCEPT ![e.category] = Append(@, e.id)]
                ELSE cat1
        scp2 == AppendScopes(scp1, e.audience_scope, e.id)
    IN [w EXCEPT !.events = [@ EXCEPT ![e.id] = append_audit(e, "system", "update", now)],
                 !.by_category = cat2,
                 !.by_scope = scp2,
                 !.personal = [a \in DOMAIN w.personal |->
                                 [i \in 1..Len(w.personal[a]) |->
                                    IF w.personal[a][i][4] = e.id
                                    THEN <<e.priority, w.personal[a][i][2],
                                           w.personal[a][i][3], e.id>>
                                    ELSE w.personal[a][i]]]]

\* EventQueue.update(e) for a stored id; old is the stored object as update
\* reads it (the broker passes the stored object itself, already mutated)
eq_update(w, old, e, now) ==
    LET cat1 == IF old.category # NoCategory
                THEN [w.by_category EXCEPT ![old.category] = RemoveFirst(@, e.id)]
                ELSE w.by_category
        scp1 == RemoveScopes(w.by_scope, old.audience_scope, e.id)
        cat2 == IF e.category # NoCategory
                THEN [cat1 EXCEPT ![e.category] = Append(@, e.id)]
                ELSE cat1
        scp2 == AppendScopes(scp1, e.audience_scope, e.id)
    IN [w EXCEPT !.events = [@ EXCEPT ![e.id] = append_audit(e, "system", "update", now)],
                 !.by_category = cat2,
                 !.by_scope = scp2]

\* an update that stamps its audit record before it looks the id up
update_audit_first(w, e, now) ==
    IF e.id \notin DOMAIN w.events
    THEN [w |-> w, e |-> append_audit(e, "system", "update", now), res |-> "KeyError"]
    ELSE [w |-> eq_update(w, w.events[e.id], e, now),
          e |-> append_audit(e, "system", "update", now), res |-> "ok"]

\* an update that enters the event in the index lists before it looks the id up
update_index_first(w, e, now) ==
    IF e.id \notin DOMAIN w.events
    THEN [w |-> [w EXCEPT !.by_category =
                            IF e.category # NoCategory
                            THEN [@ EXCEPT ![e.category] = Append(@, e.id)] ELSE @,
                          !.by_scope = AppendScopes(@, e.audience_scope, e.id)],
          e |-> e, res |-> "KeyError"]
    ELSE [w |-> eq_update(w, w.events[e.id], e, now),
          e |-> append_audit(e, "system", "update", now), res |-> "ok"]

\* EventQueue.update(e) as a caller sees it: the lookup of e.id, then the
\* rebuild; r.e is the caller's object after the call
update(w, e, now) ==
    IF e.id \notin DOMAIN w.events
    THEN [w |-> w, e |-> e, res |-> "KeyError"]
    ELSE [w |-> eq_update(w, w.events[e.id], e, now),
          e |-> append_audit(e, "system", "update", now), res |-> "ok"]

-----------------------------------------------------------------------------
\* engine/m02_events/scheduling.py

\* preemption that ignores the preemptible flag
should_preempt_any(current, incoming) == incoming.priority < current.priority

\* preemption on equal priority too
should_preempt_equal(current, incoming) ==
    incoming.priority <= current.priority /\ current.preemptible

should_preempt(current, incoming) ==
    incoming.priority < current.priority /\ current.preemptible

Max(a, b) == IF a >= b THEN a ELSE b

\* aging that starts at AGING_S seconds instead of after them
effective_priority_early(e, now_ms) ==
    IF e.priority = 0 THEN 0
    ELSE LET wait_s == Max(0, (now_ms - e.ts_ms) \div 1000)
         IN IF wait_s < AGING_S THEN e.priority
            ELSE Max(MIN_PRIORITY, e.priority - (wait_s \div STEP_S))

\* effective_priority(e, now_ms); math.floor(wait_s / STEP_S) is the integer
\* quotient for the waits of the model
effective_priority(e, now_ms) ==
    IF e.priority = 0 THEN 0
    ELSE LET wait_s == Max(0, (now_ms - e.ts_ms) \div 1000)
             aged == e.priority - (wait_s \div STEP_S)
         IN IF wait_s <= AGING_S THEN e.priority
            ELSE Max(MIN_PRIORITY, aged)

-----------------------------------------------------------------------------
\* engine/m02_events/subscriptions.py

\* tuple comparison of heap keys (priority, deadline, tie_break, id)
KeyLess(k, l) ==
    \/ k[1] < l[1]
    \/ k[1] = l[1] /\ k[2] < l[2]
    \/ k[1] = l[1] /\ k[2] = l[2] /\ k[3] < l[3]
    \/ k[1] = l[1] /\ k[2] = l[2] /\ k[3] = l[3] /\ k[4] < l[4]

RECURSIVE heappush(_, _)
\* heapq.heappush: the heap is kept as the sorted sequence of its keys, the order
\* in which heappop returns them
heappush(h, k) ==
    IF h = <<>> THEN <<k>>
    ELSE IF KeyLess(k, Head(h)) THEN <<k>> \o h
    ELSE <<Head(h)>> \o heappush(Tail(h), k)

\* a heap key without the seeded tie-break
HeapKey_untied(e, actor_id, save_seed) ==
    <<e.priority, e.deadline, 0, e.id>>

HeapKey(e, actor_id, save_seed) ==
    <<e.priority, e.deadline, tie_break(save_seed, actor_id, e.id), e.id>>

RECURSIVE backfill_walk_all(_, _, _, _, _)
\* a walk that pushes every listed id, seen or not
backfill_walk_all(b, ids, evs, actor_id, save_seed) ==
    IF ids = <<>> THEN b
    ELSE IF Head(ids) \notin DOMAIN evs
         THEN backfill_walk_all(b, Tail(ids), evs, actor_id, save_seed)
         ELSE backfill_walk_all(
                [heap |-> heappush(b.heap, HeapKey(evs[Head(ids)], actor_id, save_seed)),
                 existing_ids |-> b.existing_ids \cup {Head(ids)}],
                Tail(ids), evs, actor_id, save_seed)

RECURSIVE backfill_walk(_, _, _, _, _)
\* one loop of tools/evt.py _backfill over an index list ids; b is the heap with
\* the set existing_ids
backfill_walk(b, ids, evs, actor_id, save_seed) ==
    IF ids = <<>> THEN b
    ELSE IF Head(ids) \in b.existing_ids \/ Head(ids) \notin DOMAIN evs
         THEN backfill_walk(b, Tail(ids), evs, actor_id, save_seed)
         ELSE backfill_walk(
                [heap |-> heappush(b.heap, HeapKey(evs[Head(ids)], actor_id, save_seed)),
                 existing_ids |-> b.existing_ids \cup {Head(ids)}],
                Tail(ids), evs, actor_id, save_seed)

RECURSIVE backfill_scopes(_, _, _, _, _)
\* the loop of _backfill over the scopes passed
backfill_scopes(b, scopes, w, actor_id, save_seed) ==
    IF scopes = <<>> THEN b
    ELSE backfill_scopes(backfill_walk(b, w.by_scope[Head(scopes)], w.events,
                                       actor_id, save_seed),
                         Tail(scopes), w, actor_id, save_seed)

\* tools/evt.py _backfill(actor_id, scopes): the shipwide list, then the list of
\* each scope passed
_backfill(w, actor_id, scopes, save_seed) ==
    LET b0 == [heap |-> w.personal[actor_id],
               existing_ids |-> {w.personal[actor_id][i][4] :
                                   i \in 1..Len(w.personal[actor_id])}]
        b1 == backfill_walk(b0, w.by_scope["shipwide"], w.events, actor_id,
                            save_seed)
        b2 == backfill_scopes(b1, scopes, w, actor_id, save_seed)
    IN [w EXCEPT !.personal[actor_id] = b2.heap]

RECURSIVE FirstActive(_, _, _)
\* the loop over self._eq._events.values() of on_publish: the first stored event
\* that is active with this taker, 0 when there is none
FirstActive(evs, ids, actor_id) ==
    IF ids = <<>> THEN 0
    ELSE IF evs[Head(ids)].taker = actor_id /\ evs[Head(ids)].state = "active"
         THEN Head(ids)
         ELSE FirstActive(evs, Tail(ids), actor_id)

\* an unsubscribe that drops every scope of the actor
unsubscribe_clear(subs, known, actor_id, scopes) ==
    IF actor_id \notin Range(known) \/ subs[actor_id] = {}
    THEN subs
    ELSE [subs EXCEPT ![actor_id] = {}]

\* SubscriptionBroker.unsubscribe(actor_id, *scopes) on the scope sets subs of
\* the actors in known; the keys of _subscriptions and _personal stay as they are
unsubscribe(subs, known, actor_id, scopes) ==
    IF actor_id \notin Range(known) \/ subs[actor_id] = {}
    THEN subs
    ELSE [subs EXCEPT ![actor_id] = @ \ Range(scopes)]

\* a relevance test that lets every event through
Relevant_any(e, scopes) == TRUE

\* a relevance test that treats shipwide as a scope like any other
Relevant_optout(e, scopes) == (Range(e.audience_scope) \cap scopes) # {}

Relevant(e, scopes) ==
    "shipwide" \in Range(e.audience_scope) \/ (Range(e.audience_scope) \cap scopes) # {}

\* the body of on_publish's loop for one relevant actor
deliver(w, actor_id, id, save_seed, now) ==
    LET e == w.events[id]
        act == FirstActive(w.events, w.order, actor_id)
        w1 == IF act # 0 /\ should_preempt(w.events[act], e)
              THEN LET x == append_audit([w.events[act] EXCEPT !.state = "suspended"],
                                         actor_id, "suspend", now)
                       u == eq_update(w, x, x, now)
                   IN [u EXCEPT !.personal[actor_id] =
                                   heappush(@, HeapKey(x, actor_id, save_seed))]
              ELSE w
    IN [w1 EXCEPT !.personal[actor_id] = heappush(@, HeapKey(e, actor_id, save_seed))]

RECURSIVE on_publish(_, _, _, _, _, _)
\* SubscriptionBroker.on_publish(e, save_seed) for the stored event id, over the
\* actors of _subscriptions in insertion order
on_publish(w, actors, subs, id, save_seed, now) ==
    IF actors = <<>> THEN w
    ELSE IF ~Relevant(w.events[id], subs[Head(actors)])
         THEN on_publish(w, Tail(actors), subs, id, save_seed, now)
         ELSE on_publish(deliver(w, Head(actors), id, save_seed, now),
                         Tail(actors), subs, id, save_seed, now)

RECURSIVE DropNonQueued(_, _, _)
\* a head search that passes over the actor's own suspended events
DropNonQueued(h, evs, actor_id) ==
    IF h = <<>> THEN <<>>
    ELSE LET id == Head(h)[4]
         IN IF id \in DOMAIN evs /\ evs[id].state = "queued" THEN h
            ELSE DropNonQueued(Tail(h), evs, actor_id)

\* SubscriptionBroker._next_event_id's loop: drop head entries whose event is
\* missing or is neither queued nor suspended with this taker
RECURSIVE DropStale(_, _, _)
DropStale(h, evs, actor_id) ==
    IF h = <<>> THEN <<>>
    ELSE LET id == Head(h)[4]
         IN IF id \notin DOMAIN evs THEN DropStale(Tail(h), evs, actor_id)
            ELSE IF evs[id].state = "queued" THEN h
            ELSE IF evs[id].state = "suspended" /\ evs[id].taker = actor_id THEN h
            ELSE DropStale(Tail(h), evs, actor_id)

\* a claim loop that takes the head entry whatever the state of its event
PopAny(h, evs) ==
    IF h = <<>> THEN [found |-> 0, heap |-> <<>>]
    ELSE [found |-> Head(h)[4], heap |-> Tail(h)]

RECURSIVE PopBehind(_, _)
\* a claim loop that takes the entry behind the first queued one when that
\* entry's event is queued too
PopBehind(h, evs) ==
    IF h = <<>> THEN [found |-> 0, heap |-> <<>>]
    ELSE LET id == Head(h)[4]
         IN IF id \notin DOMAIN evs \/ evs[id].state # "queued"
            THEN PopBehind(Tail(h), evs)
            ELSE IF /\ Len(h) >= 2
                    /\ h[2][4] \in DOMAIN evs
                    /\ h[2][4] # id
                    /\ evs[h[2][4]].state = "queued"
            THEN [found |-> h[2][4], heap |-> <<Head(h)>> \o Tail(Tail(h))]
            ELSE [found |-> id, heap |-> Tail(h)]

\* a claim loop that gives up at a head entry it cannot return, leaving it
PopStuck(h, evs) ==
    IF h = <<>> THEN [found |-> 0, heap |-> <<>>]
    ELSE LET id == Head(h)[4]
         IN IF id \notin DOMAIN evs \/ evs[id].state # "queued"
            THEN [found |-> 0, heap |-> h]
            ELSE [found |-> id, heap |-> Tail(h)]

RECURSIVE PopToLive(_, _)
\* a claim loop that also stops at an event somebody has claimed
PopToLive(h, evs) ==
    IF h = <<>> THEN [found |-> 0, heap |-> <<>>]
    ELSE LET id == Head(h)[4]
         IN IF id \notin DOMAIN evs \/ evs[id].state \notin {"queued", "claimed"}
            THEN PopToLive(Tail(h), evs)
            ELSE [found |-> id, heap |-> Tail(h)]

\* SubscriptionBroker.claim's loop: pop entries until one is a stored queued event
RECURSIVE PopToQueued(_, _)
PopToQueued(h, evs) ==
    IF h = <<>> THEN [found |-> 0, heap |-> <<>>]
    ELSE LET id == Head(h)[4]
         IN IF id \notin DOMAIN evs \/ evs[id].state # "queued"
            THEN PopToQueued(Tail(h), evs)
            ELSE [found |-> id, heap |-> Tail(h)]

\* a transition that leaves its own audit record out
transition_silent(w, id, s, actor_id, action, now) ==
    LET x == [w.events[id] EXCEPT !.state = s]
    IN eq_update(w, x, x, now)

\* a lifecycle transition of the broker: e.state = s; e.append_audit(actor, action);
\* self._eq.update(e)
transition(w, id, s, actor_id, action, now) ==
    LET x == append_audit([w.events[id] EXCEPT !.state = s], actor_id, action, now)
    IN eq_update(w, x, x, now)

\* a state test of mark_active that lets a done event through
mark_active_allowed_done(s) == s \in {"claimed", "suspended", "done"}

\* the state test of mark_active
mark_active_allowed(s) == s \in {"claimed", "suspended"}

\* a state test of suspend that lets a claimed event through
suspend_allowed_claimed(s) == s \in {"claimed", "active"}

\* the state test of suspend
suspend_allowed(s) == s = "active"

\* the state test of done (the code makes none)
done_allowed(s) == TRUE

\* what done does to the taker (the code leaves it)
done_taker(t) == t

-----------------------------------------------------------------------------
\* engine/m02_events/scheduling.py: check_claim_ttl

RECURSIVE LastClaimTs(_)
\* the loop over reversed(e.audit): ts of the most recent claim record, else 0
LastClaimTs(audit) ==
    IF audit = <<>> THEN 0
    ELSE IF audit[Len(audit)].action = "claim" THEN audit[Len(audit)].ts
    ELSE LastClaimTs(SubSeq(audit, 1, Len(audit) - 1))

\* a selection test that already fires when exactly the TTL has passed
stale_claim_at(e, now_ms, claim_ttl_s) ==
    /\ e.state = "claimed"
    /\ ~(e.progress > 0)
    /\ LastClaimTs(e.audit) # 0
    /\ now_ms - LastClaimTs(e.audit) >= claim_ttl_s * 1000

\* the selection test of check_claim_ttl
stale_claim(e, now_ms, claim_ttl_s) ==
    /\ e.state = "claimed"
    /\ ~(e.progress > 0)
    /\ LastClaimTs(e.audit) # 0
    /\ now_ms - LastClaimTs(e.audit) > claim_ttl_s * 1000

\* escalation that appends officers without looking
escalate_always(scope) == Append(scope, "officers")

\* the escalation of check_claim_ttl: officers appended unless present
escalate(scope) ==
    IF "officers" \notin Range(scope) THEN Append(scope, "officers") ELSE scope

\* a reclaim that does not fan the event out again
reclaim_quiet(w, subs_order, subs, id, save_seed, now) ==
    LET x == append_audit([w.events[id] EXCEPT !.state = "queued", !.taker = None,
                                               !.audience_scope = escalate(@)],
                          "system", "claim_timeout", now)
    IN eq_update(w, x, x, now)

\* the body of check_claim_ttl for one stale event
reclaim(w, subs_order, subs, id, save_seed, now) ==
    LET x == append_audit([w.events[id] EXCEPT !.state = "queued", !.taker = None,
                                               !.audience_scope = escalate(@)],
                          "system", "claim_timeout", now)
    IN on_publish(eq_update(w, x, x, now), subs_order, subs, id, save_seed, now)

RECURSIVE check_claim_ttl_unlisted(_, _, _, _, _, _, _, _)
\* a sweep that reclaims stale events without listing them
check_claim_ttl_unlisted(r, ids, subs_order, subs, now_ms, claim_ttl_s, save_seed, now) ==
    IF ids = <<>> THEN r
    ELSE IF stale_claim(r.w.events[Head(ids)], now_ms, claim_ttl_s)
         THEN check_claim_ttl_unlisted(
                [w |-> reclaim(r.w, subs_order, subs, Head(ids), save_seed, now),
                 expired |-> r.expired],
                Tail(ids), subs_order, subs, now_ms, claim_ttl_s, save_seed, now)
         ELSE check_claim_ttl_unlisted(r, Tail(ids), subs_order, subs, now_ms,
                                       claim_ttl_s, save_seed, now)

RECURSIVE check_claim_ttl(_, _, _, _, _, _, _, _)
\* check_claim_ttl over list(broker._eq._events.values()); r.w is the world,
\* r.expired the list returned
check_claim_ttl(r, ids, subs_order, subs, now_ms, claim_ttl_s, save_seed, now) ==
    IF ids = <<>> THEN r
    ELSE IF stale_claim(r.w.events[Head(ids)], now_ms, claim_ttl_s)
         THEN check_claim_ttl(
                [w |-> reclaim(r.w, subs_order, subs, Head(ids), save_seed, now),
                 expired |-> Append(r.expired, Head(ids))],
                Tail(ids), subs_order, subs, now_ms, claim_ttl_s, save_seed, now)
         ELSE check_claim_ttl(r, Tail(ids), subs_order, subs, now_ms, claim_ttl_s,
                              save_seed, now)

-----------------------------------------------------------------------------
\* State machine

Call(op, actor, id, res, ret) ==
    [op |-> op, actor |-> actor, id |-> id, res |-> res, ret |-> ret]

Install(w) ==
    /\ events' = w.events
    /\ order' = w.order
    /\ by_category' = w.by_category
    /\ by_scope' = w.by_scope
    /\ personal' = w.personal

Stored == DOMAIN events

\* room for one fan-out (an entry for the event and one for a preempted event)
HeapRoom == \A a \in Actors : Len(personal[a]) + 2 <= MaxHeap

\* an ownership test that only looks the event up
Owns_any(a, id) == id \in Stored

\* the ownership test of mark_active, suspend and done
Owns(a, id) == id \in Stored /\ events[id].taker = a

AuditRoom(id) == Len(events[id].audit) + 2 <= MaxAudit

\* the subscribe calls tried
SubscribeInputs ==
    { <<"alice", {"private:alice", "shipwide"}>>,
      <<"bob", {"officers"}>> }

\* the now_ms passed to check_claim_ttl: the clock, or the clock moved past the
\* TTL as the tests do
NowInputs == {clock, clock + ClaimTtlS * 1000 + 1000}

\* the states an unvalidated copy may carry into update
CopyInputs ==
    { [field |-> "priority", value |-> 75],
      [field |-> "category", value |-> "bridge"],
      [field |-> "audience_scope", value |-> <<"shipwide">>],
      [field |-> "audience_scope", value |-> <<>>] }

\* the fields passed to the constructor before EventQueue.publish
QueueInputs ==
    { make_sleep_event, make_repair_event,
      Fields(101, TRUE, <<"shipwide">>, NoCategory, 0),
      Fields(50, TRUE, <<>>, NoCategory, 0) }

\* the waits, in seconds, at which effective_priority is consulted: around the
\* aging threshold, around the steps, and up to MaxWaitS
WaitInputs ==
    {w \in {0, 1, AGING_S - 1, AGING_S, AGING_S + 1, AGING_S + STEP_S - 1,
            AGING_S + STEP_S, AGING_S + STEP_S + 1, 10 * STEP_S, 20 * STEP_S,
            40 * STEP_S, 94 * STEP_S, 95 * STEP_S, 96 * STEP_S, MaxWaitS} :
        w <= MaxWaitS}

\* the now_ms passed to effective_priority: the event's ts_ms plus a wait, to
\* the millisecond below the next second, and a now_ms before the event's ts_ms
AgingNows ==
    {StartMs + w * 1000 : w \in WaitInputs}
        \cup {StartMs + w * 1000 + 999 : w \in WaitInputs}
        \cup {StartMs - 1000}

\* room in the index lists for one more publish of these fields
IndexRoom(f) ==
    /\ \A sc \in Range(f.audience_scope) : Len(by_scope[sc]) < MaxIndex
    /\ f.category # NoCategory => Len(by_category[f.category]) < MaxIndex

\* no save store in use: an empty saves directory, no save in progress, an
\* autosaver with the default limit, and no subscription request made yet
NoStore ==
    /\ request = [actor |-> None, scopes |-> <<>>]
    /\ files = [n \in {} |-> 0]
    /\ saving = [pc |-> "idle"]
    /\ source = 0
    /\ limit = DefaultLimit

\* no key recorded and no seed_for call made
NoAux ==
    /\ recorded = [a \in Actors |-> [i \in {} |-> 0]]
    /\ rng = [save_seed |-> 0, ids |-> <<>>, state |-> 0, called |-> FALSE]

Init ==
    /\ capacity = DefaultCapacity
    /\ events = <<>>
    /\ order = <<>>
    /\ by_category = [c \in Categories |-> <<>>]
    /\ by_scope = [s \in Scopes |-> <<>>]
    /\ subscriptions = [a \in Actors |-> {}]
    /\ sub_order = <<>>
    /\ personal = [a \in Actors |-> <<>>]
    /\ clock = StartMs
    /\ last = Call("init", None, 0, "ok", <<>>)
    /\ replay = <<>>
    /\ NoStore
    /\ NoAux

\* EventQueue(capacity) for the capacities tried, zero and negative included
InitQueue ==
    /\ capacity \in -1..MaxCapacity
    /\ events = <<>>
    /\ order = <<>>
    /\ by_category = [c \in Categories |-> <<>>]
    /\ by_scope = [s \in Scopes |-> <<>>]
    /\ subscriptions = [a \in Actors |-> {}]
    /\ sub_order = <<>>
    /\ personal = [a \in Actors |-> <<>>]
    /\ clock = StartMs
    /\ last = Call("init", None, 0, "ok", <<>>)
    /\ replay = <<>>
    /\ NoStore
    /\ NoAux

\* An event of any priority, published and fanned out to alice, about to be
\* inspected by a scheduler
InitAging ==
    /\ capacity = DefaultCapacity
    /\ clock = StartMs
    /\ subscriptions = [a \in Actors |-> IF a = "alice" THEN {"shipwide"} ELSE {}]
    /\ sub_order = <<"alice">>
    /\ \E p \in {q \in 0..MaxPriority : _validate_priority(q)} :
          LET e == Event(1, Fields(p, TRUE, <<"shipwide">>, NoCategory, 0))
              w0 == [events |-> <<>>, order |-> <<>>,
                     by_category |-> [c \in Categories |-> <<>>],
                     by_scope |-> [s \in Scopes |-> <<>>],
                     personal |-> [a \in Actors |-> <<>>]]
              w == on_publish(eq_publish(w0, e), sub_order, subscriptions, 1, 123,
                              clock)
          IN /\ events = w.events
             /\ order = w.order
             /\ by_category = w.by_category
             /\ by_scope = w.by_scope
             /\ personal = w.personal
    /\ last = Call("init", None, 0, "ok", <<>>)
    /\ replay = <<>>
    /\ NoStore
    /\ NoAux

\* effective_priority(e, now_ms) on a stored event; the call returns a number
\* and assigns nothing
EffectivePriority(id, now_ms) ==
    /\ id \in Stored
    /\ last' = Call("effective_priority", None, id, "ok",
                    <<now_ms, effective_priority(events[id], now_ms)>>)
    /\ UNCHANGED <<aux, persist, request, replay, capacity, events, order, by_category, by_scope,
                   subscriptions, sub_order, personal, clock>>

\* SubscriptionBroker.subscribe(actor_id, *scopes)
Subscribe(a, scopes) ==
    /\ subscriptions' = [subscriptions EXCEPT ![a] = @ \cup scopes]
    /\ sub_order' = IF a \in Range(sub_order) THEN sub_order ELSE Append(sub_order, a)
    /\ last' = Call("subscribe", a, 0, "ok", <<>>)
    /\ UNCHANGED <<aux, persist, request, replay, capacity, events, order, by_category, by_scope, personal, clock>>

\* the --actor-id and --scopes of the harness's subscribe command
EvtSubscribeInputs ==
    { <<"alice", <<"private:alice">> >>,
      <<"alice", <<"private:alice", "shipwide">> >>,
      <<"bob", <<"officers">> >>,
      <<"bob", <<"officers", "department:engineering">> >> }

\* tools/evt.py subscribe: BROKER.subscribe(actor_id, *scopes), then
\* _backfill(actor_id, scopes)
EvtSubscribe(a, scopes, save_seed) ==
    /\ subscriptions' = [subscriptions EXCEPT ![a] = @ \cup Range(scopes)]
    /\ sub_order' = IF a \in Range(sub_order) THEN sub_order ELSE Append(sub_order, a)
    /\ Install(_backfill(World, a, scopes, save_seed))
    /\ request' = [actor |-> a, scopes |-> scopes]
    /\ last' = Call("evt_subscribe", a, 0, "ok", <<>>)
    /\ UNCHANGED <<aux, persist, replay, capacity, clock>>

\* the scope lists passed to unsubscribe: one scope, several, one listed twice,
\* one never subscribed, none
UnsubscribeInputs ==
    { <<"shipwide">>, <<"private:alice">>, <<"officers", "shipwide">>,
      <<"officers", "officers">>, <<"department:engineering">>, <<>> }

\* SubscriptionBroker.unsubscribe(actor_id, *scopes)
Unsubscribe(a, scopes) ==
    /\ subscriptions' = unsubscribe(subscriptions, sub_order, a, scopes)
    /\ request' = [actor |-> a, scopes |-> scopes]
    /\ last' = Call("unsubscribe", a, 0, "ok", <<>>)
    /\ UNCHANGED <<aux, persist, replay, capacity, events, order, by_category, by_scope,
                   sub_order, personal, clock>>

\* Event(id=..., ...) then EventQueue.publish(e): the producer names the id, new
\* or already stored
Publish(id, f) ==
    /\ IndexRoom(f)
    /\ IF ~ValidEvent(f)
       THEN /\ last' = Call("publish", None, 0, "ValidationError", <<>>)
            /\ UNCHANGED <<events, order, by_category, by_scope>>
       ELSE IF publish_rejected(events, capacity, Event(id, f))
       THEN /\ last' = Call("publish", None, id, "RuntimeError", <<>>)
            /\ UNCHANGED <<events, order, by_category, by_scope>>
       ELSE /\ Install(eq_publish(World, Event(id, f)))
            /\ last' = Call("publish", None, id, "ok", <<>>)
    /\ UNCHANGED <<aux, persist, request, replay, capacity, subscriptions, sub_order, personal, clock>>

\* tools/evt.py spawn_*: construct the event (new_ulid gives the next id, at
\* most n of them), then EQ.publish(e), then BROKER.on_publish(e, save_seed)
Spawn(f, save_seed, n) ==
    LET id == Len(order) + 1
    IN /\ id <= n
       /\ HeapRoom
       /\ IF ~ValidEvent(f)
          THEN /\ last' = Call("spawn", None, 0, "ValidationError", <<>>)
               /\ UNCHANGED <<events, order, by_category, by_scope, personal>>
          ELSE IF publish_rejected(events, capacity, Event(id, f))
          THEN /\ last' = Call("spawn", None, id, "RuntimeError", <<>>)
               /\ UNCHANGED <<events, order, by_category, by_scope, personal>>
          ELSE /\ Install(on_publish(eq_publish(World, Event(id, f)), sub_order,
                                     subscriptions, id, save_seed, clock))
               /\ last' = Call("spawn", None, id, "ok", <<>>)
       /\ UNCHANGED <<aux, persist, request, replay, capacity, subscriptions, sub_order, clock>>

\* SubscriptionBroker.peek(actor_id)
Peek(a) ==
    LET h == DropStale(personal[a], events, a)
    IN /\ personal' = [personal EXCEPT ![a] = h]
       /\ last' = IF h = <<>> THEN Call("peek", a, 0, "None", <<>>)
                  ELSE Call("peek", a, Head(h)[4], "ok", <<Head(h)[4]>>)
       /\ UNCHANGED <<aux, persist, request, replay, capacity, events, order, by_category, by_scope, subscriptions,
                      sub_order, clock>>

\* SubscriptionBroker.claim(actor_id)
Claim(a) ==
    LET p == PopToQueued(personal[a], events)
        w == [World EXCEPT !.personal[a] = p.heap]
    IN /\ p.found # 0 => AuditRoom(p.found)
       /\ IF p.found = 0
          THEN /\ Install(w)
               /\ last' = Call("claim", a, 0, "None", <<>>)
          ELSE /\ Install(transition([w EXCEPT !.events[p.found].taker = a],
                                     p.found, "claimed", a, "claim", clock))
               /\ last' = Call("claim", a, p.found, "ok", <<p.found>>)
       /\ UNCHANGED <<aux, persist, request, replay, capacity, subscriptions, sub_order, clock>>

\* SubscriptionBroker.mark_active(actor_id, event_id)
MarkActive(a, id) ==
    /\ (Owns(a, id) /\ mark_active_allowed(events[id].state))
          => AuditRoom(id)
    /\ IF ~Owns(a, id)
       THEN /\ last' = Call("mark_active", a, id, "KeyError", <<>>)
            /\ UNCHANGED <<events, order, by_category, by_scope, personal>>
       ELSE IF ~mark_active_allowed(events[id].state)
       THEN /\ last' = Call("mark_active", a, id, "ValueError", <<>>)
            /\ UNCHANGED <<events, order, by_category, by_scope, personal>>
       ELSE /\ Install(transition(World, id, "active", a, "active", clock))
            /\ last' = Call("mark_active", a, id, "ok", <<>>)
    /\ UNCHANGED <<aux, persist, request, replay, capacity, subscriptions, sub_order, clock>>

\* SubscriptionBroker.suspend(actor_id, event_id)
Suspend(a, id) ==
    /\ (Owns(a, id) /\ suspend_allowed(events[id].state))
          => AuditRoom(id)
    /\ IF ~Owns(a, id)
       THEN /\ last' = Call("suspend", a, id, "KeyError", <<>>)
            /\ UNCHANGED <<events, order, by_category, by_scope, personal>>
       ELSE IF ~suspend_allowed(events[id].state)
       THEN /\ last' = Call("suspend", a, id, "ValueError", <<>>)
            /\ UNCHANGED <<events, order, by_category, by_scope, personal>>
       ELSE /\ Install(transition(World, id, "suspended", a, "suspend", clock))
            /\ last' = Call("suspend", a, id, "ok", <<>>)
    /\ UNCHANGED <<aux, persist, request, replay, capacity, subscriptions, sub_order, clock>>

\* SubscriptionBroker.done(actor_id, event_id)
Done(a, id) ==
    /\ (Owns(a, id) /\ done_allowed(events[id].state))
          => AuditRoom(id)
    /\ IF ~Owns(a, id)
       THEN /\ last' = Call("done", a, id, "KeyError", <<>>)
            /\ UNCHANGED <<events, order, by_category, by_scope, personal>>
       ELSE IF ~done_allowed(events[id].state)
       THEN /\ last' = Call("done", a, id, "ValueError", <<>>)
            /\ UNCHANGED <<events, order, by_category, by_scope, personal>>
       ELSE /\ Install(transition([World EXCEPT !.events[id].taker = done_taker(@)],
                                  id, "done", a, "done", clock))
            /\ last' = Call("done", a, id, "ok", <<>>)
    /\ UNCHANGED <<aux, persist, request, replay, capacity, subscriptions, sub_order, clock>>

\* check_claim_ttl(broker, now_ms, claim_ttl_s=..., save_seed=...)
CheckClaimTtl(now_ms, save_seed) ==
    LET r == check_claim_ttl([w |-> World, expired |-> <<>>], order, sub_order,
                             subscriptions, now_ms, ClaimTtlS, save_seed, clock)
    IN /\ HeapRoom
       /\ \A id \in Stored : stale_claim(events[id], now_ms, ClaimTtlS) => AuditRoom(id)
       /\ Install(r.w)
       /\ last' = Call("check_claim_ttl", None, 0, "ok", r.expired)
       /\ UNCHANGED <<aux, persist, request, replay, capacity, subscriptions, sub_order, clock>>

\* EventQueue.update(e.model_copy(update={field: value})): the copy is not
\* validated
UpdateCopy(id, c) ==
    /\ id \in Stored => Len(events[id].audit) < MaxCopies
    /\ IF id \notin Stored
       THEN /\ last' = Call("update", None, id, "KeyError", <<>>)
            /\ UNCHANGED <<events, order, by_category, by_scope, personal>>
       ELSE LET old == events[id]
                e == CASE c.field = "priority" -> [old EXCEPT !.priority = c.value]
                       [] c.field = "progress" -> [old EXCEPT !.progress = c.value]
                       [] c.field = "category" -> [old EXCEPT !.category = c.value]
                       [] OTHER -> [old EXCEPT !.audience_scope = c.value]
            IN /\ Install(eq_update(World, old, e, clock))
               /\ last' = Call("update", None, id, "ok", <<>>)
    /\ UNCHANGED <<aux, persist, request, replay, capacity, subscriptions, sub_order, clock>>

\* Event(id=..., ...) then EventQueue.update(e): a newly constructed event under
\* an id that is stored or not
Update(id, f) ==
    /\ IndexRoom(f)
    /\ IF ~ValidEvent(f)
       THEN /\ last' = Call("update", None, 0, "ValidationError", <<>>)
            /\ UNCHANGED <<events, order, by_category, by_scope, personal>>
       ELSE LET r == update(World, Event(id, f), clock)
            IN /\ Install(r.w)
               /\ last' = Call("update", None, id, r.res, r.e.audit)
    /\ UNCHANGED <<aux, persist, request, replay, capacity, subscriptions, sub_order, clock>>

\* The broker and its queue as the harness and the actors drive them
Next ==
    \/ \E s \in SubscribeInputs : Subscribe(s[1], s[2])
    \/ \E f \in EventInputs, sd \in Seeds : Spawn(f, sd, MaxEvents)
    \/ \E a \in Actors : Peek(a)
    \/ \E a \in Actors : Claim(a)
    \/ \E a \in Actors, id \in Ids : MarkActive(a, id)
    \/ \E a \in Actors, id \in Ids : Suspend(a, id)
    \/ \E a \in Actors, id \in Ids : Done(a, id)
    \/ \E n \in NowInputs, sd \in Seeds : CheckClaimTtl(n, sd)

Spec == Init /\ [][Next]_vars

\* One actor working through up to MaxPreemptEvents events
NextPreempt ==
    \/ Subscribe("alice", {"private:alice", "shipwide"})
    \/ \E f \in EventInputs, sd \in Seeds : Spawn(f, sd, MaxPreemptEvents)
    \/ Claim("alice")
    \/ \E id \in PreemptIds : MarkActive("alice", id)

SpecPreempt == Init /\ [][NextPreempt]_vars

\* the events of the TTL runs: the sleep and repair events and one that
\* already shows progress
TtlEventInputs ==
    { make_sleep_event, make_repair_event,
      Fields(50, TRUE, <<"officers">>, NoCategory, 50) }

\* the now_ms passed to a sweep: the time of the claims, exactly the TTL
\* later, and past it by a millisecond and by a second
TtlNows ==
    { clock, clock + ClaimTtlS * 1000, clock + ClaimTtlS * 1000 + 1,
      clock + ClaimTtlS * 1000 + 1000 }

\* check_claim_ttl(broker, now_ms, claim_ttl_s=ClaimTtlS, save_seed=save_seed),
\* the call keeping its now_ms
Sweep(now_ms, save_seed) ==
    LET r == check_claim_ttl([w |-> World, expired |-> <<>>], order, sub_order,
                             subscriptions, now_ms, ClaimTtlS, save_seed, clock)
    IN /\ HeapRoom
       /\ \A id \in Stored : events[id].state = "claimed" => AuditRoom(id)
       /\ Install(r.w)
       /\ last' = [op |-> "check_claim_ttl", actor |-> None, id |-> 0, res |-> "ok",
                   ret |-> r.expired, now |-> now_ms]
       /\ UNCHANGED <<aux, persist, request, replay, capacity, subscriptions, sub_order,
                      clock>>

\* Claims going stale: actors claim and work, the harness sweeps
NextTtl ==
    \/ \E s \in SubscribeInputs : Subscribe(s[1], s[2])
    \/ \E f \in TtlEventInputs, sd \in Seeds : Spawn(f, sd, MaxEvents)
    \/ \E a \in Actors : Claim(a)
    \/ \E a \in Actors, id \in Ids : Owns(a, id) /\ MarkActive(a, id)
    \/ \E a \in Actors, id \in Ids : Owns(a, id) /\ Suspend(a, id)
    \/ \E a \in Actors, id \in Ids : Owns(a, id) /\ Done(a, id)
    \/ \E n \in TtlNows, sd \in Seeds : Sweep(n, sd)

SpecTtl == Init /\ [][NextTtl]_vars

\* the save seeds of a run whose save was reseeded
ReseedSeeds == {123, 124}

\* rec extended by the key of every event that heaps pers hold and rec does not
\* know yet: the key under which the event was first pushed for the actor
Record(rec, pers) ==
    [a \in Actors |->
       LET held == {pers[a][i][4] : i \in 1..Len(pers[a])}
       IN [id \in DOMAIN rec[a] \cup held |->
             IF id \in DOMAIN rec[a] THEN rec[a][id]
             ELSE pers[a][CHOOSE i \in 1..Len(pers[a]) : pers[a][i][4] = id]]]

\* the spawn command, with the key of each first push kept in recorded
SpawnRecorded(f, save_seed) ==
    LET id == Len(order) + 1
    IN /\ id <= MaxEvents
       /\ HeapRoom
       /\ IF ~ValidEvent(f)
          THEN /\ last' = Call("spawn", None, 0, "ValidationError", <<>>)
               /\ UNCHANGED <<events, order, by_category, by_scope, personal, recorded>>
          ELSE IF publish_rejected(events, capacity, Event(id, f))
          THEN /\ last' = Call("spawn", None, id, "RuntimeError", <<>>)
               /\ UNCHANGED <<events, order, by_category, by_scope, personal, recorded>>
          ELSE /\ Install(on_publish(eq_publish(World, Event(id, f)), sub_order,
                                     subscriptions, id, save_seed, clock))
               /\ recorded' = Record(recorded, personal')
               /\ last' = Call("spawn", None, id, "ok", <<>>)
       /\ UNCHANGED <<rng, persist, request, replay, capacity, subscriptions, sub_order,
                      clock>>

\* One actor working while events arrive under either seed and priorities are
\* changed through update
NextRekey ==
    \/ Subscribe("alice", {"private:alice", "shipwide"})
    \/ \E f \in EventInputs, sd \in ReseedSeeds : SpawnRecorded(f, sd)
    \/ Claim("alice")
    \/ \E id \in Ids : Owns("alice", id) /\ MarkActive("alice", id)
    \/ \E id \in Ids, c \in CopyInputs : UpdateCopy(id, c)

SpecRekey == Init /\ [][NextRekey]_vars

\* the now_ms at which a scheduler consults an aged priority in a run of the
\* broker: at once, and one step into aging
KeyNows == {clock, clock + (AGING_S + STEP_S) * 1000}

\* One actor and every core operation that could touch a heap: fan-out, peek,
\* claim, the lifecycle calls, the sweep, update and effective_priority
NextKeys ==
    \/ Subscribe("alice", {"private:alice", "shipwide"})
    \/ \E f \in EventInputs, sd \in Seeds : Spawn(f, sd, MaxEvents)
    \/ Peek("alice")
    \/ Claim("alice")
    \/ \E id \in Ids : Owns("alice", id) /\ MarkActive("alice", id)
    \/ \E id \in Ids : Owns("alice", id) /\ Suspend("alice", id)
    \/ \E id \in Ids : Owns("alice", id) /\ Done("alice", id)
    \/ \E n \in NowInputs, sd \in Seeds : CheckClaimTtl(n, sd)
    \/ \E id \in Ids, c \in CopyInputs : UpdateCopy(id, c)
    \/ \E id \in Ids, n \in KeyNows : id \in Stored /\ EffectivePriority(id, n)

SpecKeys == Init /\ [][NextKeys]_vars

\* Finitely many events fanned out (at most MaxEvents), the actors peeking and
\* claiming in any order
NextClaimLoop ==
    \/ \E s \in SubscribeInputs : Subscribe(s[1], s[2])
    \/ \E f \in EventInputs, sd \in Seeds : Spawn(f, sd, MaxEvents)
    \/ \E a \in Actors : Peek(a)
    \/ \E a \in Actors : Claim(a)

\* alice keeps calling claim
SpecClaimLoop == Init /\ [][NextClaimLoop]_vars /\ WF_vars(Claim("alice"))

\* the identifiers passed to seed_for: actor ids and event ids, as on_publish
\* passes them
Identifiers ==
    [kind : {"actor"}, actor : Actors, event : {0}]
        \cup [kind : {"event"}, actor : {None}, event : 1..MaxEvents]

\* _stable_hash of an identifier of either kind
Digest(obj) ==
    IF obj.kind = "actor" THEN _stable_hash(obj.actor) ELSE _stable_hash_id(obj.event)

\* the *ids argument lists tried: up to MaxIds identifiers in any order, with
\* repetitions
IdLists == UNION {[1..n -> Identifiers] : n \in 0..MaxIds}

\* the save seeds tried: SAVE_SEED, small ones, and ones that differ from them
\* by the modulus, negative included
SeedInputs ==
    {0, 5, 123, 5 + 2 ^ HashBits, 123 + 2 ^ HashBits, 5 - 2 ^ HashBits}

\* a caller about to call seed_for(save_seed, *ids)
InitSeed ==
    /\ capacity = DefaultCapacity
    /\ events = <<>>
    /\ order = <<>>
    /\ by_category = [c \in Categories |-> <<>>]
    /\ by_scope = [s \in Scopes |-> <<>>]
    /\ subscriptions = [a \in Actors |-> {}]
    /\ sub_order = <<>>
    /\ personal = [a \in Actors |-> <<>>]
    /\ clock = StartMs
    /\ last = Call("init", None, 0, "ok", <<>>)
    /\ replay = <<>>
    /\ NoStore
    /\ recorded = [a \in Actors |-> [i \in {} |-> 0]]
    /\ \E sd \in SeedInputs, ids \in IdLists :
          rng = [save_seed |-> sd, ids |-> ids, state |-> 0, called |-> FALSE]

\* seed_for(save_seed, *ids): the state the returned PRNG is seeded with
SeedFor ==
    /\ ~rng.called
    /\ rng' = [rng EXCEPT
                 !.state = seed_for(rng.save_seed,
                                    [i \in 1..Len(rng.ids) |-> Digest(rng.ids[i])]),
                 !.called = TRUE]
    /\ last' = Call("seed_for", None, 0, "ok", <<>>)
    /\ UNCHANGED <<recorded, persist, request, replay, capacity, events, order,
                   by_category, by_scope, subscriptions, sub_order, personal, clock>>

NextSeed == SeedFor

SpecSeed == InitSeed /\ [][NextSeed]_vars

\* Actors subscribing, unsubscribing and claiming while events are spawned
NextUnsub ==
    \/ \E s \in SubscribeInputs : Subscribe(s[1], s[2])
    \/ \E a \in Actors, scopes \in UnsubscribeInputs : Unsubscribe(a, scopes)
    \/ \E f \in EventInputs, sd \in Seeds : Spawn(f, sd, MaxEvents)
    \/ \E a \in Actors : Claim(a)

SpecUnsub == Init /\ [][NextUnsub]_vars

\* Actors subscribing and unsubscribing while events are spawned
NextSubs ==
    \/ \E s \in SubscribeInputs : Subscribe(s[1], s[2])
    \/ \E a \in Actors, scopes \in UnsubscribeInputs : Unsubscribe(a, scopes)
    \/ \E f \in EventInputs, sd \in Seeds : Spawn(f, sd, MaxEvents)

SpecSubs == Init /\ [][NextSubs]_vars

\* Late subscribers: events are published, the harness subscribes actors and
\* backfills their heaps, and the actors claim
NextBackfill ==
    \/ \E id \in Ids, f \in QueueInputs : Publish(id, f)
    \/ \E s \in EvtSubscribeInputs, sd \in Seeds : EvtSubscribe(s[1], s[2], sd)
    \/ \E a \in Actors : Claim(a)

SpecBackfill == Init /\ [][NextBackfill]_vars

\* The EventQueue alone: publish and update
NextQueue ==
    \/ \E id \in Ids, f \in QueueInputs : Publish(id, f)
    \/ \E id \in Ids, c \in CopyInputs : UpdateCopy(id, c)
    \/ \E id \in Ids, f \in QueueInputs : Update(id, f)

SpecQueue == InitQueue /\ [][NextQueue]_vars

\* Queue, broker and sweep with unvalidated copies passed to update; the
\* lifecycle calls are those of an event's taker
NextFields ==
    \/ \E s \in SubscribeInputs : Subscribe(s[1], s[2])
    \/ \E f \in EventInputs, sd \in Seeds : Spawn(f, sd, MaxEvents)
    \/ \E a \in Actors : Claim(a)
    \/ \E a \in Actors, id \in Ids : Owns(a, id) /\ MarkActive(a, id)
    \/ \E a \in Actors, id \in Ids : Owns(a, id) /\ Suspend(a, id)
    \/ \E a \in Actors, id \in Ids : Owns(a, id) /\ Done(a, id)
    \/ \E n \in NowInputs, sd \in Seeds : CheckClaimTtl(n, sd)
    \/ \E id \in Ids, c \in CopyInputs : UpdateCopy(id, c)

SpecFields == Init /\ [][NextFields]_vars

\* new_ulid(): a time prefix and os.urandom bits, so any id not yet taken
new_ulid(taken) == Ids \ taken

\* eq.publish(e) then broker.on_publish(e, save_seed), on a world record
spawn(w, subs_order, subs, e, save_seed, now) ==
    on_publish(eq_publish(w, e), subs_order, subs, e.id, save_seed, now)

\* SubscriptionBroker.claim(actor_id), on a world record
claim(w, actor_id, now) ==
    LET p == PopToQueued(w.personal[actor_id], w.events)
        w1 == [w EXCEPT !.personal[actor_id] = p.heap]
    IN IF p.found = 0 THEN w1
       ELSE transition([w1 EXCEPT !.events[p.found].taker = actor_id],
                       p.found, "claimed", actor_id, "claim", now)

\* the clocks of the second run: the first run's, or one that reads later
ReplayClocks == {StartMs, StartMs + 1}

\* Two independent runs, each with a fresh queue and broker and its own clock
InitReplay ==
    /\ capacity = DefaultCapacity
    /\ events = <<>>
    /\ order = <<>>
    /\ by_category = [c \in Categories |-> <<>>]
    /\ by_scope = [s \in Scopes |-> <<>>]
    /\ subscriptions = [a \in Actors |-> {}]
    /\ sub_order = <<>>
    /\ personal = [a \in Actors |-> <<>>]
    /\ clock = StartMs
    /\ last = Call("init", None, 0, "ok", <<>>)
    /\ NoStore
    /\ NoAux
    /\ \E c \in ReplayClocks :
          replay = [w |-> [events |-> <<>>, order |-> <<>>,
                           by_category |-> [x \in Categories |-> <<>>],
                           by_scope |-> [x \in Scopes |-> <<>>],
                           personal |-> [a \in Actors |-> <<>>]],
                    clock |-> c]

\* the same spawn command in both runs (subscriptions, which no run draws from
\* its environment, are kept once for both); each run's Event() draws its own id
\* and reads its own clock
ReplaySpawn(f, save_seed) ==
    /\ Len(order) < MaxEvents
    /\ HeapRoom
    /\ ValidEvent(f)
    /\ \E id1 \in new_ulid(Stored), id2 \in new_ulid(DOMAIN replay.w.events) :
          /\ Install(spawn(World, sub_order, subscriptions, Event(id1, f),
                           save_seed, clock))
          /\ replay' = [replay EXCEPT
                          !.w = spawn(@, sub_order, subscriptions,
                                      [Event(id2, f) EXCEPT !.ts_ms = replay.clock],
                                      save_seed, replay.clock)]
          /\ last' = Call("spawn", None, id1, "ok", <<>>)
    /\ UNCHANGED <<aux, persist, request, capacity, subscriptions, sub_order, clock>>

\* the same claim call in both runs
ReplayClaim(a) ==
    /\ \A id \in Stored : AuditRoom(id)
    /\ Install(claim(World, a, clock))
    /\ replay' = [replay EXCEPT !.w = claim(@, a, replay.clock)]
    /\ last' = Call("claim", a, 0, "ok", <<>>)
    /\ UNCHANGED <<aux, persist, request, capacity, subscriptions, sub_order, clock>>

\* One sequence of subscribe, spawn and claim calls applied to both runs
NextReplay ==
    \/ \E s \in SubscribeInputs : Subscribe(s[1], s[2])
    \/ \E f \in EventInputs, sd \in Seeds : ReplaySpawn(f, sd)
    \/ \E a \in Actors : ReplayClaim(a)

SpecReplay == InitReplay /\ [][NextReplay]_vars

\* A scheduler consulting the aged priority of a waiting event
NextAging ==
    \E now_ms \in AgingNows : EffectivePriority(1, now_ms)

SpecAging == InitAging /\ [][NextAging]_vars

-----------------------------------------------------------------------------
\* engine/m11_persist/json_store.py and engine/workers/autosave.py. A file name
\* is the sequence of its character codes; the saves directory maps the names
\* of its files to their contents.

MaxChunks == 2          \* writes that put a whole snapshot into a file
MaxLimit == 2           \* largest AutoSaver.limit tried

\* "autosave_", ".json", ".tmp", "." and "0"
PREFIX == <<97, 117, 116, 111, 115, 97, 118, 101, 95>>
JSON_EXT == <<46, 106, 115, 111, 110>>
TMP_EXT == <<46, 116, 109, 112>>
DOT == <<46>>
ZERO == <<48>>

\* the queue and broker, which the save store does not touch
broker == <<capacity, events, order, by_category, by_scope, subscriptions,
            sub_order, personal, clock, replay, request>>

StartsWith(s, p) == Len(s) >= Len(p) /\ SubSeq(s, 1, Len(p)) = p

EndsWith(s, p) == Len(s) >= Len(p) /\ SubSeq(s, Len(s) - Len(p) + 1, Len(s)) = p

RECURSIVE StrLess(_, _)
\* str.__lt__: code point by code point, a proper prefix first
StrLess(a, b) ==
    IF b = <<>> THEN FALSE
    ELSE IF a = <<>> THEN TRUE
    ELSE IF Head(a) # Head(b) THEN Head(a) < Head(b)
    ELSE StrLess(Tail(a), Tail(b))

RECURSIVE sorted(_)
\* sorted(paths) of files of one directory
sorted(S) ==
    IF S = {} THEN <<>>
    ELSE LET m == CHOOSE x \in S : \A y \in S : x = y \/ StrLess(x, y)
         IN <<m>> \o sorted(S \ {m})

RECURSIVE Digits(_)
\* str(n) for n >= 0
Digits(n) == IF n < 10 THEN <<48 + n>> ELSE Digits(n \div 10) \o <<48 + (n % 10)>>

RECURSIVE ZeroPad(_, _)
ZeroPad(s, width) == IF Len(s) >= width THEN s ELSE ZeroPad(ZERO \o s, width)

\* f"{tick:04d}"
Format04d(tick) == ZeroPad(Digits(tick), 4)

\* _NAME_RE.fullmatch(name): one or more of A-Z a-z 0-9 _ -
safe_name(name) ==
    /\ name # <<>>
    /\ \A i \in 1..Len(name) :
          \/ name[i] \in 65..90
          \/ name[i] \in 97..122
          \/ name[i] \in 48..57
          \/ name[i] \in {95, 45}

\* JsonSaveStore._path_for(name), as the file's name in the saves directory
_path_for(name) == name \o JSON_EXT

\* the name tempfile.mkstemp gives with random part r
mkstemp(name, r) == DOT \o name \o DOT \o r \o TMP_EXT

\* the random parts of temporary names
TmpSuffixes == {<<120>>, <<121>>}

\* a directory with file n holding content c
Put(fs, n, c) == [x \in DOMAIN fs \cup {n} |-> IF x = n THEN c ELSE fs[x]]

\* os.remove / Path.unlink of an existing file
Remove(fs, n) == [x \in DOMAIN fs \ {n} |-> fs[x]]

\* the content of a file that holds the first k chunks of json.dump(snap)
Content(snap, k) == [snap |-> snap, written |-> k]

\* one more chunk of json.dump(snap, tmp) reaches the file
write(fs, tmp, snap) == [fs EXCEPT ![tmp] = Content(snap, @.written + 1)]

\* os.replace(tmp_path, path)
replace(fs, tmp, path) == Remove(Put(fs, path, fs[tmp]), tmp)

\* a finally block that leaves the temporary file behind
cleanup_none(fs, tmp) == fs

\* finally: if os.path.exists(tmp_path): os.remove(tmp_path)
cleanup(fs, tmp) == IF tmp \in DOMAIN fs THEN Remove(fs, tmp) ELSE fs

RECURSIVE write_all(_, _, _)
write_all(fs, tmp, snap) ==
    IF fs[tmp].written >= MaxChunks THEN fs ELSE write_all(write(fs, tmp, snap), tmp, snap)

\* JsonSaveStore.save(snap, name=name) when no step fails
save(fs, snap, name, r) ==
    LET tmp == mkstemp(name, r)
        f1 == Put(fs, tmp, Content(snap, 0))
        f2 == write_all(f1, tmp, snap)
        f3 == replace(f2, tmp, _path_for(name))
    IN cleanup(f3, tmp)

\* save_dir.glob(f"{prefix}*.json")
glob(fs, prefix) ==
    {n \in DOMAIN fs : /\ Len(n) >= Len(prefix) + Len(JSON_EXT)
                       /\ StartsWith(n, prefix)
                       /\ EndsWith(n, JSON_EXT)}

RECURSIVE unlink_all(_, _)
\* for old in olds: old.unlink(missing_ok=True)
unlink_all(fs, olds) ==
    IF olds = <<>> THEN fs
    ELSE unlink_all(IF Head(olds) \in DOMAIN fs THEN Remove(fs, Head(olds)) ELSE fs,
                    Tail(olds))

\* the rotation of AutoSaver.run_once after its save
rotate(fs, prefix, lim) ==
    LET existing == sorted(glob(fs, prefix))
    IN IF lim > 0 /\ Len(existing) > lim
       THEN unlink_all(fs, SubSeq(existing, 1, Len(existing) - lim))
       ELSE fs

\* the snapshots saved by hand and the names they are saved under: "q", "s",
\* and "q." which safe_name refuses
SaveNames == {<<113>>, <<115>>, <<113, 46>>}

SaveTicks == {1, 2}

\* the ticks at which the simulation offers a snapshot to the autosaver
TickInputs == {1, 2, 9998, 9999, 10000, 10001}

\* JsonSaveStore.save, entry: _path_for and mkstemp. The record saving keeps
\* the call's arguments, the destination's content before the call, the
\* outcome and the step that failed, also after the call has returned.
SaveCall(tick, name) ==
    /\ saving.pc = "idle"
    /\ IF ~safe_name(name)
       THEN /\ last' = Call("save", None, 0, "ValueError", <<>>)
            /\ UNCHANGED <<files, saving>>
       ELSE \/ /\ last' = Call("save", None, 0, "OSError", _path_for(name))
               /\ UNCHANGED <<files, saving>>
            \/ \E r \in TmpSuffixes :
                  /\ mkstemp(name, r) \notin DOMAIN files
                  /\ files' = Put(files, mkstemp(name, r), Content([tick |-> tick], 0))
                  /\ saving' = [pc |-> "write", name |-> name,
                                tmp |-> mkstemp(name, r), snap |-> [tick |-> tick],
                                res |-> "ok", at |-> "",
                                before |-> IF _path_for(name) \in DOMAIN files
                                           THEN <<files[_path_for(name)]>> ELSE <<>>]
                  /\ last' = Call("save", None, 0, "running", _path_for(name))
    /\ UNCHANGED <<aux, broker, source, limit>>

\* json.dump(snap, tmp); tmp.flush(): a chunk is written, or the write fails
SaveWrite ==
    /\ saving.pc = "write"
    /\ \/ /\ files' = write(files, saving.tmp, saving.snap)
          /\ saving' = [saving EXCEPT !.pc = IF files'[saving.tmp].written >= MaxChunks
                                             THEN "fsync" ELSE "write"]
       \/ /\ saving' = [saving EXCEPT !.pc = "finally", !.res = "OSError",
                                       !.at = "write"]
          /\ UNCHANGED files
    /\ UNCHANGED <<aux, broker, source, limit, last>>

\* os.fsync(tmp.fileno()), or its failure
SaveFsync ==
    /\ saving.pc = "fsync"
    /\ \/ saving' = [saving EXCEPT !.pc = "replace"]
       \/ saving' = [saving EXCEPT !.pc = "finally", !.res = "OSError", !.at = "fsync"]
    /\ UNCHANGED <<aux, broker, source, limit, last, files>>

\* os.replace(tmp_path, path), or its failure
SaveReplace ==
    /\ saving.pc = "replace"
    /\ \/ /\ files' = replace(files, saving.tmp, _path_for(saving.name))
          /\ saving' = [saving EXCEPT !.pc = "finally"]
       \/ /\ saving' = [saving EXCEPT !.pc = "finally", !.res = "OSError",
                                       !.at = "replace"]
          /\ UNCHANGED files
    /\ UNCHANGED <<aux, broker, source, limit, last>>

\* the finally block, then the return or the exception
SaveFinally ==
    /\ saving.pc = "finally"
    /\ files' = cleanup(files, saving.tmp)
    /\ saving' = [saving EXCEPT !.pc = "idle"]
    /\ last' = Call("save", None, 0, saving.res, _path_for(saving.name))
    /\ UNCHANGED <<aux, broker, source, limit>>

\* Saves by hand, step by step, each step able to fail
NextSave ==
    \/ \E t \in SaveTicks, n \in SaveNames : SaveCall(t, n)
    \/ SaveWrite
    \/ SaveFsync
    \/ SaveReplace
    \/ SaveFinally

SpecSave == Init /\ [][NextSave]_vars

\* the simulation reaches tick t and its latest snapshot is that of t
Advance(t) ==
    /\ t > source
    /\ source' = t
    /\ last' = Call("advance", None, 0, "ok", <<>>)
    /\ UNCHANGED <<aux, broker, files, saving, limit>>

\* AutoSaver.run_once(now_ms); source 0 stands for no snapshot yet
run_once ==
    /\ saving.pc = "idle"
    /\ IF source = 0
       THEN /\ last' = Call("run_once", None, 0, "None", <<>>)
            /\ UNCHANGED files
       ELSE LET name == PREFIX \o Format04d(source)
            IN \/ /\ last' = Call("run_once", None, 0, "OSError", <<>>)
                  /\ UNCHANGED files
               \/ \E r \in TmpSuffixes :
                     /\ files' = rotate(save(files, [tick |-> source], name, r),
                                        PREFIX, limit)
                     /\ last' = Call("run_once", None, 0, "ok", _path_for(name))
    /\ UNCHANGED <<aux, broker, saving, source, limit>>

\* AutoSaver(source, store, limit=...) on an empty saves directory
InitAutosave ==
    /\ capacity = DefaultCapacity
    /\ events = <<>>
    /\ order = <<>>
    /\ by_category = [c \in Categories |-> <<>>]
    /\ by_scope = [s \in Scopes |-> <<>>]
    /\ subscriptions = [a \in Actors |-> {}]
    /\ sub_order = <<>>
    /\ personal = [a \in Actors |-> <<>>]
    /\ clock = StartMs
    /\ last = Call("init", None, 0, "ok", <<>>)
    /\ replay = <<>>
    /\ request = [actor |-> None, scopes |-> <<>>]
    /\ files = [n \in {} |-> 0]
    /\ saving = [pc |-> "idle"]
    /\ source = 0
    /\ limit \in 0..MaxLimit
    /\ NoAux

\* The autosaver called as the simulation's tick advances
NextAutosave ==
    \/ \E t \in TickInputs : Advance(t)
    \/ run_once

SpecAutosave == InitAutosave /\ [][NextAutosave]_vars

-----------------------------------------------------------------------------
\* Properties

Held == {"claimed", "active", "suspended"}

Lifecycle == {"mark_active", "suspend", "done"}

\* the entries of heap h that point at event id
EntriesOf(h, id) == SelectSeq(h, LAMBDA k : k[4] = id)

RECURSIVE Count(_, _)
Count(s, x) ==
    IF s = <<>> THEN 0
    ELSE (IF Head(s) = x THEN 1 ELSE 0) + Count(Tail(s), x)

\* the field ranges of the data model (progress in percent)
FieldsValid(e) ==
    /\ e.audience_scope # <<>>
    /\ e.priority \in 0..100
    /\ e.progress \in 0..100
    /\ e.state \in States

\* C1: once an event is done, failed, expired or cancelled, every later
\* mark_active, suspend or done call on it is rejected with an error and its
\* state and audit log never change again.
C1_TerminalIsFinal ==
    [][\A id \in Stored :
          events[id].state \in Terminal =>
            /\ events'[id].state = events[id].state
            /\ events'[id].audit = events[id].audit
            /\ (last'.op \in Lifecycle /\ last'.id = id)
                  => last'.res \in {"KeyError", "ValueError"}]_vars

\* C2: an event's taker is set if and only if its state is claimed, active or
\* suspended.
C2_TakerIffHeld ==
    \A id \in Stored : (events[id].taker # None) <=> (events[id].state \in Held)

\* C3: each actor has at most one active event.
C3_AtMostOneActive ==
    \A a \in Actors :
        Cardinality({id \in Stored : events[id].state = "active"
                                     /\ events[id].taker = a}) <= 1

\* C4: when a new event e is fanned out to an actor a holding an active,
\* preemptible event x of lower urgency (e.priority < x.priority), then after
\* on_publish x is suspended and a's heap holds e's entry before x's entry.
C4_PreemptionSuspends ==
    [][(last'.op = "spawn" /\ last'.res = "ok" /\ last'.id \notin Stored) =>
          \A a \in Range(sub_order), x \in Stored :
             ( /\ Relevant(events'[last'.id], subscriptions[a])
               /\ events[x].state = "active"
               /\ events[x].taker = a
               /\ events[x].preemptible
               /\ events'[last'.id].priority < events[x].priority )
             => /\ events'[x].state = "suspended"
                /\ \E i, j \in 1..Len(personal'[a]) :
                      /\ i < j
                      /\ personal'[a][i][4] = last'.id
                      /\ personal'[a][j][4] = x]_vars

\* C5: no fan-out (a spawn's on_publish, or the re-fan-out of check_claim_ttl)
\* changes the state of an active event that is not preemptible.
C5_NonPreemptibleStaysActive ==
    [][last'.op \in {"spawn", "check_claim_ttl"} =>
          \A x \in Stored :
             (events[x].state = "active" /\ ~events[x].preemptible)
                => events'[x].state = "active"]_vars

\* a lower-priority-number event was fanned out to the taker of an active,
\* non-preemptible event
C5_Witness ==
    /\ last.op = "spawn" /\ last.res = "ok"
    /\ \E x \in Stored \ {last.id} :
          /\ events[x].state = "active"
          /\ ~events[x].preemptible
          /\ events[x].taker \in Range(sub_order)
          /\ Relevant(events[last.id], subscriptions[events[x].taker])
          /\ events[last.id].priority < events[x].priority

\* the events a step fans out: the spawned event, or those a sweep reclaims
FannedOut == IF last'.op = "spawn" /\ last'.res = "ok" THEN {last'.id}
             ELSE IF last'.op = "check_claim_ttl" THEN Range(last'.ret)
             ELSE {}

\* C6: a fan-out of events whose priority is equal to or numerically greater
\* than that of an active event leaves that event's state, audit log and heap
\* entries unchanged.
C6_NoPreemptionUnlessMoreUrgent ==
    [][\A x \in Stored :
          ( /\ events[x].state = "active"
            /\ FannedOut # {}
            /\ \A e \in FannedOut : events'[e].priority >= events[x].priority )
          => /\ events'[x].state = events[x].state
             /\ events'[x].audit = events[x].audit
             /\ \A a \in Actors :
                   EntriesOf(personal'[a], x) = EntriesOf(personal[a], x)]_vars

\* an event of equal or lower urgency was fanned out to the taker of an active,
\* preemptible event
C6_Witness ==
    /\ last.op = "spawn" /\ last.res = "ok"
    /\ \E x \in Stored \ {last.id} :
          /\ events[x].state = "active"
          /\ events[x].preemptible
          /\ events[x].taker \in Range(sub_order)
          /\ Relevant(events[last.id], subscriptions[events[x].taker])
          /\ events[last.id].priority >= events[x].priority

\* C7: every event check_claim_ttl returns is queued with no taker right after
\* the call, has officers in its audience exactly once more than before if it
\* was absent and not at all more if it was present, and has gained a
\* (system, claim_timeout) audit record.
C7_ClaimTtlPostState ==
    [][last'.op = "check_claim_ttl" =>
          \A x \in Range(last'.ret) :
             LET old == events[x]
                 new == events'[x]
                 n == Len(old.audit)
             IN /\ new.state = "queued"
                /\ new.taker = None
                /\ Count(new.audience_scope, "officers")
                     = (IF "officers" \in Range(old.audience_scope)
                        THEN Count(old.audience_scope, "officers") ELSE 1)
                /\ Len(new.audit) = n + 2
                /\ SubSeq(new.audit, 1, n) = old.audit
                /\ new.audit[n + 1].actor_id = "system"
                /\ new.audit[n + 1].action = "claim_timeout"]_vars

\* a sweep reclaimed an event whose audience already named officers
C7_Witness ==
    /\ last.op = "check_claim_ttl"
    /\ \E x \in Range(last.ret) :
          events[x].audience_scope = <<"department:engineering", "officers">>

\* C8: for a capacity >= 0 the number of stored events never exceeds it.
C8_CapacityInvariant ==
    capacity >= 0 => Cardinality(Stored) <= capacity

\* a publish was rejected by a full queue of positive capacity
C8_Witness ==
    /\ capacity > 0
    /\ Cardinality(Stored) = capacity
    /\ last.op = "publish" /\ last.res = "RuntimeError"

\* C9: publish is rejected with the capacity error exactly when the event count
\* has reached the capacity, and a rejected publish changes neither the primary
\* map nor the indices; an id already stored and a capacity <= 0 are no
\* exceptions.
C9_PublishRejection ==
    [][(last'.op = "publish" /\ last'.res # "ValidationError") =>
          /\ (last'.res = "RuntimeError") <=> (Cardinality(Stored) >= capacity)
          /\ last'.res = "RuntimeError"
                => UNCHANGED <<events, order, by_category, by_scope>>]_vars

\* a publish under an id already stored was rejected by the capacity test
C9_Witness ==
    /\ last.op = "publish" /\ last.res = "RuntimeError"
    /\ last.id \in Stored

C13_AgingMonotoneAboveFloor ==
    [][(last'.op = "effective_priority" /\ events[last'.id].priority \in 1..100) =>
          /\ last'.ret[2] >= MIN_PRIORITY
          /\ (last.op = "effective_priority" /\ last.ret[1] <= last'.ret[1])
                => last'.ret[2] <= last.ret[2]]_vars

\* the formula of the design for the aged priority
ReferencePriority(priority, ts_ms, now_ms) ==
    IF priority = 0 THEN 0
    ELSE LET d == now_ms - ts_ms
             wait_s == IF d < 0 THEN 0 ELSE d \div 1000
         IN IF wait_s <= 120 THEN priority
            ELSE IF priority - (wait_s \div 30) < 5 THEN 5
            ELSE priority - (wait_s \div 30)

\* C14: effective_priority returns the reference formula's value for every
\* priority 0..100 and every now_ms, and changes neither the event nor a heap.
C14_EffectivePriorityFormula ==
    [][last'.op = "effective_priority" =>
          /\ last'.ret[2] = ReferencePriority(events[last'.id].priority,
                                              events[last'.id].ts_ms, last'.ret[1])
          /\ UNCHANGED <<events, personal>>]_vars

\* an aged priority strictly between the floor and the event's priority
C14_Witness ==
    /\ last.op = "effective_priority"
    /\ last.ret[2] > MIN_PRIORITY
    /\ last.ret[2] < events[last.id].priority
\* the audit action that records the transition into a state
ActionInto(state) ==
    CASE state = "claimed" -> "claim"
      [] state = "active" -> "active"
      [] state = "suspended" -> "suspend"
      [] state = "done" -> "done"
      [] state = "queued" -> "claim_timeout"
      [] OTHER -> "none"

\* C12: the audit log of a stored event only grows; whenever it grows in a step
\* it grows by one transition record followed by one (system, update) record,
\* and every change of state is recorded so, by the actor that made it (system
\* for a claim timeout).
C12_AuditOrdering ==
    [][\A id \in Stored :
          LET old == events[id].audit
              new == events'[id].audit
              n == Len(old)
          IN /\ Len(new) >= n
             /\ SubSeq(new, 1, n) = old
             /\ new # old =>
                   /\ Len(new) = n + 2
                   /\ new[n + 1].action \in {"claim", "active", "suspend", "done",
                                              "claim_timeout"}
                   /\ new[n + 2].actor_id = "system"
                   /\ new[n + 2].action = "update"
             /\ events'[id].state # events[id].state =>
                   /\ new # old
                   /\ new[n + 1].action = ActionInto(events'[id].state)
                   /\ new[n + 1].actor_id =
                         (IF events'[id].state = "queued" THEN "system"
                          ELSE events'[id].taker)]_vars

\* a fan-out suspended an active event: its log ends with the holder's suspend
\* record and the update record
C12_Witness ==
    /\ last.op = "spawn" /\ last.res = "ok"
    /\ \E x \in Stored \ {last.id} :
          LET a == events[x].audit
          IN /\ events[x].state = "suspended"
             /\ Len(a) >= 2
             /\ a[Len(a) - 1].action = "suspend"
             /\ a[Len(a) - 1].actor_id = events[x].taker
             /\ a[Len(a)].action = "update"
Min(a, b) == IF a <= b THEN a ELSE b

\* C15 as claimed: after an update that changes category and audience_scope, the
\* old category list and the lists of the scopes dropped no longer contain the
\* id, the new category list and the new scope lists contain it, and the
\* primary map holds the updated event.
C15_IndexRebuilt ==
    [][(last'.op = "update" /\ last'.res = "ok") =>
          LET id == last'.id
              old == events[id]
              new == events'[id]
          IN (old.category # new.category /\ old.audience_scope # new.audience_scope)
             => /\ old.category # NoCategory
                      => id \notin Range(by_category'[old.category])
                /\ \A sc \in Range(old.audience_scope) \ Range(new.audience_scope) :
                      id \notin Range(by_scope'[sc])
                /\ new.category # NoCategory
                      => id \in Range(by_category'[new.category])
                /\ \A sc \in Range(new.audience_scope) : id \in Range(by_scope'[sc])
                /\ new.audit[Len(new.audit)].action = "update"]_vars

\* C15 as amended: update takes one occurrence of the id out of the old
\* category list and out of each old scope list (entries added by publishing
\* the id again stay), then appends the id to the new category list and to each
\* new scope list; no other id's entries change and the primary map holds the
\* updated event.
C15_OneOccurrenceMoved ==
    [][(last'.op = "update" /\ last'.res = "ok") =>
          LET id == last'.id
              old == events[id]
              new == events'[id]
          IN /\ \A c \in Categories :
                   /\ Count(by_category'[c], id)
                        = Count(by_category[c], id)
                          - (IF c = old.category
                             THEN Min(1, Count(by_category[c], id)) ELSE 0)
                          + (IF c = new.category THEN 1 ELSE 0)
                   /\ \A x \in Ids \ {id} :
                         Count(by_category'[c], x) = Count(by_category[c], x)
             /\ \A sc \in Scopes :
                   /\ Count(by_scope'[sc], id)
                        = Count(by_scope[sc], id)
                          - Min(Count(old.audience_scope, sc), Count(by_scope[sc], id))
                          + Count(new.audience_scope, sc)
                   /\ \A x \in Ids \ {id} :
                         Count(by_scope'[sc], x) = Count(by_scope[sc], x)
             /\ new.audit[Len(new.audit)].action = "update"
             /\ DOMAIN events' = Stored]_vars

\* an update moved an id that had been published twice: the category it left
\* still lists it
C15_Witness ==
    /\ last.op = "update" /\ last.res = "ok"
    /\ \E c \in Categories :
          /\ c # events[last.id].category
          /\ last.id \in Range(by_category[c])
          /\ events[last.id].category \in Categories
          /\ last.id \in Range(by_category[events[last.id].category])

\* C16: update of an event whose id is not stored fails with the not-found
\* error, leaves the primary map and both indices unchanged and appends nothing
\* to the event's audit log.
C16_UpdateNotFound ==
    [][(last'.op = "update" /\ last'.res # "ValidationError" /\ last'.id \notin Stored) =>
          /\ last'.res = "KeyError"
          /\ UNCHANGED <<events, order, by_category, by_scope>>
          /\ last'.ret = <<>>]_vars

\* an update under an unknown id failed on a queue that holds another event
C16_Witness ==
    /\ last.op = "update" /\ last.res = "KeyError"
    /\ last.id \notin Stored
    /\ Stored # {}
\* C17: when an actor claims an event while another queued event of equal
\* priority and equal deadline, fanned out to it with the same save_seed, waits
\* in its heap, the claimed one has the smaller (or equal) value of
\* seed_for(save_seed, actor_id, event_id).random(), whichever was published
\* first.
C17_TieBreakOrder ==
    [][(last'.op = "claim" /\ last'.res = "ok") =>
          LET a == last'.actor
              x == last'.id
          IN \A y \in Stored \ {x}, sd \in Seeds :
                ( /\ events[y].state = "queued"
                  /\ EntriesOf(personal[a], y) # <<>>
                  /\ events[y].priority = events[x].priority
                  /\ events[y].deadline = events[x].deadline )
                => tie_break(sd, a, x) <= tie_break(sd, a, y)]_vars

\* the event claimed was published after a waiting event of equal priority and
\* has the strictly smaller tie-break
C17_Witness ==
    /\ last.op = "claim" /\ last.res = "ok"
    /\ \E y \in Stored, sd \in Seeds :
          /\ y < last.id
          /\ events[y].state = "queued"
          /\ EntriesOf(personal[last.actor], y) # <<>>
          /\ events[y].priority = events[last.id].priority
          /\ tie_break(sd, last.actor, last.id) < tie_break(sd, last.actor, y)

\* the positions of heap h whose event is stored and queued
QueuedAt(h) ==
    {i \in 1..Len(h) : h[i][4] \in Stored /\ events[h[i][4]].state = "queued"}

\* C18: claim returns the event of the smallest-key entry, among the entries
\* of the actor's heap whose event is queued, and makes it claimed with the
\* actor as taker; with no such entry (or an empty heap) it returns None and
\* changes no event.
C18_ClaimSmallestQueued ==
    [][last'.op = "claim" =>
          LET a == last'.actor
              h == personal[a]
          IN IF QueuedAt(h) = {}
             THEN last'.res = "None" /\ events' = events
             ELSE /\ last'.res = "ok"
                  /\ \E i \in QueuedAt(h) :
                        /\ h[i][4] = last'.id
                        /\ \A j \in QueuedAt(h) : ~KeyLess(h[j], h[i])
                  /\ events'[last'.id].state = "claimed"
                  /\ events'[last'.id].taker = a
                  /\ \A y \in Stored \ {last'.id} : events'[y] = events[y]]_vars

\* a claim passed over the entry of an event that another actor holds and
\* returned a queued event behind it
C18_Witness ==
    /\ last.op = "claim" /\ last.res = "ok"
    /\ \E y \in Stored \ {last.id} :
          /\ events[y].taker \notin {None, last.actor}
          /\ events[y].priority < events[last.id].priority
          /\ Relevant(events[y], subscriptions[last.actor])

\* the positions of heap h whose event peek may return to actor a
AvailableAt(h, a) ==
    {i \in 1..Len(h) :
        /\ h[i][4] \in Stored
        /\ \/ events[h[i][4]].state = "queued"
           \/ events[h[i][4]].state = "suspended" /\ events[h[i][4]].taker = a}

\* C19: peek returns the event of the smallest-key entry whose event is queued
\* or is suspended with the actor as taker, drops the entries before it and no
\* others, returns None (leaving the heap empty) when there is no such entry,
\* and changes no event and no other actor's heap.
C19_PeekSmallestAvailable ==
    [][last'.op = "peek" =>
          LET a == last'.actor
              h == personal[a]
          IN /\ events' = events
             /\ \A b \in Actors \ {a} : personal'[b] = personal[b]
             /\ IF AvailableAt(h, a) = {}
                THEN last'.res = "None" /\ personal'[a] = <<>>
                ELSE /\ last'.res = "ok"
                     /\ \E i \in AvailableAt(h, a) :
                           /\ h[i][4] = last'.id
                           /\ \A j \in AvailableAt(h, a) : ~KeyLess(h[j], h[i])
                           /\ personal'[a] = SubSeq(h, i, Len(h))]_vars

\* peek returned the actor's own suspended event
C19_Witness ==
    /\ last.op = "peek" /\ last.res = "ok"
    /\ events[last.id].state = "suspended"
    /\ events[last.id].taker = last.actor

\* C20: mark_active, suspend and done called with an unknown id or by an actor
\* that is not the event's taker fail with the lookup error and leave events,
\* indices and heaps unchanged.
C20_OwnershipRequired ==
    [][(last'.op \in Lifecycle
          /\ ~(last'.id \in Stored /\ events[last'.id].taker = last'.actor)) =>
          /\ last'.res = "KeyError"
          /\ UNCHANGED <<events, order, by_category, by_scope, personal>>]_vars

\* a lifecycle call by an actor on an event that another actor holds was refused
C20_Witness ==
    /\ last.op \in Lifecycle /\ last.res = "KeyError"
    /\ last.id \in Stored
    /\ events[last.id].taker \notin {None, last.actor}
    /\ events[last.id].state \in Held
\* the place of event id in the order of creation
CreatedAt(ord, id) == CHOOSE k \in 1..Len(ord) : ord[k] = id

\* a heap as the sequence of the creation places of its entries' events
HeapOrdering(h, ord) == [i \in 1..Len(h) |-> CreatedAt(ord, h[i][4])]

\* C11: two independent runs of the same calls with the same save_seed have,
\* event by event in order of creation, identical audit logs, and actor by
\* actor identical heap orderings.
C11_Determinism ==
    /\ Len(replay.w.order) = Len(order)
    /\ \A k \in 1..Len(order) :
          replay.w.events[replay.w.order[k]].audit = events[order[k]].audit
    /\ \A a \in Actors :
          HeapOrdering(replay.w.personal[a], replay.w.order)
             = HeapOrdering(personal[a], order)
\* C21: called by the taker, mark_active succeeds exactly from claimed or
\* suspended (making the event active) and suspend exactly from active (making
\* it suspended); from any other state the call raises the invalid-state error
\* and leaves the event's state and audit log unchanged.
C21_StatePreconditions ==
    [][(last'.op \in {"mark_active", "suspend"}
          /\ last'.id \in Stored
          /\ events[last'.id].taker = last'.actor) =>
          LET e == events[last'.id]
              good == IF last'.op = "mark_active"
                      THEN e.state \in {"claimed", "suspended"}
                      ELSE e.state = "active"
          IN IF good
             THEN /\ last'.res = "ok"
                  /\ events'[last'.id].state =
                        (IF last'.op = "mark_active" THEN "active" ELSE "suspended")
             ELSE /\ last'.res = "ValueError"
                  /\ events'[last'.id].state = e.state
                  /\ events'[last'.id].audit = e.audit]_vars

\* the taker's suspend call on an event it has only claimed was refused
C21_Witness ==
    /\ last.op = "suspend" /\ last.res = "ValueError"
    /\ events[last.id].taker = last.actor
    /\ events[last.id].state = "claimed"

\* event e is addressed to subscribed actor a
Addressed(e, a) ==
    /\ a \in Range(sub_order)
    /\ \/ \E i \in 1..Len(e.audience_scope) : e.audience_scope[i] = "shipwide"
       \/ \E i \in 1..Len(e.audience_scope) : e.audience_scope[i] \in subscriptions[a]

\* C22: a fan-out of event e pushes exactly one entry for e onto the heap of
\* every subscribed actor whose scopes meet e's audience (or every subscribed
\* actor when e is shipwide); an actor that no fanned-out event is addressed to
\* keeps its heap as it was and has no event suspended.
C22_FanOutRelevance ==
    [][FannedOut # {} =>
          \A a \in Actors :
             /\ \A e \in FannedOut :
                   Len(EntriesOf(personal'[a], e))
                      = Len(EntriesOf(personal[a], e))
                        + (IF Addressed(events'[e], a) THEN 1 ELSE 0)
             /\ (\A e \in FannedOut : ~Addressed(events'[e], a))
                   => /\ personal'[a] = personal[a]
                      /\ \A x \in Stored :
                            (events[x].taker = a /\ events'[x].state = "suspended")
                               => events[x].state = "suspended"]_vars

\* an event was fanned out to one subscribed actor and not to another, who
\* holds an active, preemptible event of lower urgency
C22_Witness ==
    /\ last.op = "spawn" /\ last.res = "ok"
    /\ \E a, b \in Range(sub_order) :
          /\ Addressed(events[last.id], a)
          /\ ~Addressed(events[last.id], b)
          /\ Len(EntriesOf(personal[a], last.id)) = 1
          /\ \E x \in Stored :
                /\ events[x].taker = b
                /\ events[x].state = "active"
                /\ events[x].preemptible
                /\ events[last.id].priority < events[x].priority

\* C24: every suspended event has an entry in its taker's heap.
C24_SuspendedRetrievable ==
    \A id \in Stored :
       events[id].state = "suspended"
          => EntriesOf(personal[events[id].taker], id) # <<>>

IndexLists(bc, bs) ==
    {bc[c] : c \in Categories} \cup {bs[sc] : sc \in Scopes}

\* C25: every id listed in by_category or by_scope is the id of a stored event.
C25_IndexIdsResolve ==
    \A l \in IndexLists(by_category, by_scope) : Range(l) \subseteq Stored

\* an update of an unknown id was refused while the index lists hold entries
C25_Witness ==
    /\ last.op = "update" /\ last.res = "KeyError"
    /\ \E l \in IndexLists(by_category, by_scope) : l # <<>>

\* the position of the first occurrence of x in s
FirstPos(s, x) == CHOOSE i \in 1..Len(s) : s[i] = x /\ \A j \in 1..(i - 1) : s[j] # x

\* ids x and y, both listed in l and in m, come in the same order in both
SameOrder(l, m) ==
    \A x, y \in Range(l) \cap Range(m) :
       (FirstPos(l, x) < FirstPos(l, y)) <=> (FirstPos(m, x) < FirstPos(m, y))

\* C26: no operation changes the relative order of two ids already present in
\* an index list, and an update that changes neither the category nor the
\* scopes leaves every index list as it was.
C26_NoReordering ==
    [][/\ \A c \in Categories : SameOrder(by_category[c], by_category'[c])
       /\ \A sc \in Scopes : SameOrder(by_scope[sc], by_scope'[sc])
       /\ (/\ last'.op = "update" /\ last'.res = "ok"
           /\ events'[last'.id].category = events[last'.id].category
           /\ events'[last'.id].audience_scope = events[last'.id].audience_scope)
             => /\ by_category' = by_category
                /\ by_scope' = by_scope]_vars
\* C23: unsubscribe removes exactly the listed scopes from the actor's scope
\* set and changes nothing else (for an actor that never subscribed: no scope
\* set and no heap appear), and an event spawned afterwards is pushed onto the
\* heap of no actor whose remaining scopes do not meet its audience.
C23_Unsubscribe ==
    [][/\ last'.op = "unsubscribe" =>
            /\ request'.actor = last'.actor
            /\ subscriptions' =
                  [subscriptions EXCEPT ![last'.actor] = @ \ Range(request'.scopes)]
            /\ sub_order' = sub_order
            /\ personal' = personal
            /\ UNCHANGED <<events, order, by_category, by_scope>>
       /\ (last'.op = "spawn" /\ last'.res = "ok") =>
            \A a \in Actors :
               ~Addressed(events'[last'.id], a) => personal'[a] = personal[a]]_vars

\* an actor that still has a scope set has unsubscribed from some scopes, and
\* an event addressed only to those scopes was then spawned and did not reach
\* the actor's heap
C23_Witness ==
    /\ last.op = "spawn" /\ last.res = "ok"
    /\ request.actor \in Range(sub_order)
    /\ subscriptions[request.actor] # {}
    /\ Range(events[last.id].audience_scope) \subseteq Range(request.scopes)
    /\ Range(events[last.id].audience_scope) \cap subscriptions[request.actor] = {}
    /\ EntriesOf(personal[request.actor], last.id) = <<>>
\* the ids a backfill for scopes S has to make available
Backfilled(S) ==
    {id \in Stored : \E sc \in S \cup {"shipwide"} : id \in Range(by_scope[sc])}

C27_AtomicSave ==
    /\ \A n \in DOMAIN files :
          EndsWith(n, JSON_EXT) => files[n].written = MaxChunks
    /\ saving.pc = "idle" =>
          /\ \A n \in DOMAIN files : ~EndsWith(n, TMP_EXT)
          /\ "name" \in DOMAIN saving =>
                LET path == _path_for(saving.name)
                IN IF saving.res = "ok"
                   THEN /\ path \in DOMAIN files
                        /\ files[path] = [snap |-> saving.snap, written |-> MaxChunks]
                   ELSE IF saving.before = <<>>
                   THEN path \notin DOMAIN files
                   ELSE /\ path \in DOMAIN files
                        /\ files[path] = saving.before[1]

\* a save over an existing file of another snapshot failed at the rename and
\* has raised
C27_Witness ==
    /\ saving.pc = "idle" /\ "name" \in DOMAIN saving
    /\ last.op = "save" /\ last.res = "OSError"
    /\ saving.at = "replace"
    /\ saving.before # <<>>
    /\ saving.before[1].snap # saving.snap

RECURSIVE ParseInt(_)
\* the number a string of digits denotes
ParseInt(s) ==
    IF s = <<>> THEN 0
    ELSE ParseInt(SubSeq(s, 1, Len(s) - 1)) * 10 + (s[Len(s)] - 48)

\* the tick in the name of an autosave file
TickOf(n) == ParseInt(SubSeq(n, Len(PREFIX) + 1, Len(n) - Len(JSON_EXT)))

\* C28: after a run_once that saved a snapshot with limit > 0, at most limit
\* autosave files remain, the file just written (whose path is returned) is
\* among them, and every file kept has a higher tick than every file removed.
C28_Rotation ==
    [][(last'.op = "run_once" /\ last'.res = "ok" /\ limit > 0) =>
          LET kept == glob(files', PREFIX)
              had == glob(files, PREFIX) \cup {last'.ret}
          IN /\ Cardinality(kept) <= limit
             /\ last'.ret \in kept
             /\ kept \subseteq had
             /\ \A n \in kept, m \in had \ kept : TickOf(m) < TickOf(n)]_vars
\* the timestamp of the most recent claim record of a stored event, 0 if none
ClaimTs(id) ==
    LET a == events[id].audit
        I == {i \in 1..Len(a) : a[i].action = "claim"}
    IN IF I = {} THEN 0 ELSE a[CHOOSE i \in I : \A j \in I : j <= i].ts

\* the events a sweep at now_ms has to reclaim
Due(now_ms) ==
    {id \in Stored : /\ events[id].state = "claimed"
                     /\ events[id].progress = 0
                     /\ now_ms - ClaimTs(id) > ClaimTtlS * 1000}

C32_EscalationDelivered ==
    [][last'.op = "check_claim_ttl" =>
          \A x \in Range(last'.ret) :
             /\ events'[x].state = "queued"
             /\ events'[x].taker = None
             /\ "officers" \in Range(events'[x].audience_scope)
             /\ \A a \in Range(sub_order) :
                   (\/ "officers" \in subscriptions[a]
                    \/ Range(events[x].audience_scope) \cap subscriptions[a] # {}
                    \/ "shipwide" \in Range(events[x].audience_scope))
                      => EntriesOf(personal'[a], x) # <<>>]_vars

\* a sweep has returned an event private to alice, who had claimed it; it now
\* lies in alice's heap and in that of bob, who is subscribed to officers
C32_Witness ==
    /\ last.op = "check_claim_ttl"
    /\ \E x \in Range(last.ret) :
          /\ events[x].audience_scope = <<"private:alice", "officers">>
          /\ \E i \in 1..Len(events[x].audit) :
                events[x].audit[i] = [actor_id |-> "alice", action |-> "claim",
                                      ts |-> events[x].audit[i].ts]
          /\ EntriesOf(personal["alice"], x) # <<>>
          /\ EntriesOf(personal["bob"], x) # <<>>
          /\ "officers" \in subscriptions["bob"]
\* C36 as stated: a sweep leaves the state, taker, audience and audit log of
\* every event it does not return as they were.
C36_SweepFrameStrict ==
    [][last'.op = "check_claim_ttl" =>
          \A id \in Stored \ Range(last'.ret) :
             /\ events'[id].state = events[id].state
             /\ events'[id].taker = events[id].taker
             /\ events'[id].audience_scope = events[id].audience_scope
             /\ events'[id].audit = events[id].audit]_vars

\* C36: a sweep changes the taker and audience only of the events it returns;
\* an event it does not return keeps its state and audit log, unless it is an
\* active preemptible event whose taker receives a returned, more urgent event
\* through the re-fan-out: that event is suspended, with the records of the
\* suspension appended to its audit log.
C36_SweepFrame ==
    [][last'.op = "check_claim_ttl" =>
          \A id \in Stored \ Range(last'.ret) :
             /\ events'[id].taker = events[id].taker
             /\ events'[id].audience_scope = events[id].audience_scope
             /\ \/ /\ events'[id].state = events[id].state
                   /\ events'[id].audit = events[id].audit
                \/ /\ events[id].state = "active"
                   /\ events'[id].state = "suspended"
                   /\ events[id].preemptible
                   /\ \E x \in Range(last'.ret) :
                         /\ events'[x].priority < events[id].priority
                         /\ Addressed(events'[x], events[id].taker)
                   /\ Len(events'[id].audit) = Len(events[id].audit) + 2
                   /\ SubSeq(events'[id].audit, 1, Len(events[id].audit))
                         = events[id].audit
                   /\ events'[id].audit[Len(events[id].audit) + 1].action = "suspend"
                   /\ events'[id].audit[Len(events[id].audit) + 1].actor_id
                         = events[id].taker]_vars

\* a sweep has suspended an active event that it did not return
C36_Witness ==
    /\ last.op = "check_claim_ttl" /\ last.ret # <<>>
    /\ \E id \in Stored \ Range(last.ret) :
          /\ events[id].state = "suspended"
          /\ Len(events[id].audit) >= 2
          /\ events[id].audit[Len(events[id].audit) - 1].action = "suspend"
          /\ \E x \in Range(last.ret) : events[x].priority < events[id].priority
\* C33: when a fan-out suspends an actor's active event x, every entry for x
\* that the actor's heap gains is the key under which x was first pushed for
\* that actor.
C33_RecordedKeyPushedBack ==
    [][\A x \in Stored :
          (/\ last'.op = "spawn"
           /\ events[x].state = "active"
           /\ events'[x].state = "suspended")
             => LET a == events[x].taker
                IN /\ EntriesOf(personal'[a], x) # <<>>
                   /\ \A k \in Range(EntriesOf(personal'[a], x)) :
                         \/ k \in Range(EntriesOf(personal[a], x))
                         \/ k = recorded[a][x]]_vars
RECURSIVE IsSubSeq(_, _)
\* s is t with some entries left out
IsSubSeq(s, t) ==
    IF s = <<>> THEN TRUE
    ELSE IF t = <<>> THEN FALSE
    ELSE IF Head(s) = Head(t) THEN IsSubSeq(Tail(s), Tail(t))
    ELSE IsSubSeq(s, Tail(t))

\* C34: a heap changes only by losing entries at its head, in a peek or claim
\* of its actor, and by gaining entries in a fan-out (spawn or sweep); every
\* other operation, update and effective_priority included, leaves each heap
\* as it was, and no step changes the key of an entry that stays.
C34_KeysFixed ==
    [][\A a \in Actors :
          LET old == personal[a]
              new == personal'[a]
          IN IF last'.op \in {"peek", "claim"} /\ last'.actor = a
             THEN \E k \in 0..Len(old) : new = SubSeq(old, k + 1, Len(old))
             ELSE IF last'.op \in {"spawn", "check_claim_ttl"}
             THEN IsSubSeq(old, new)
             ELSE new = old]_vars

\* an update has changed the priority of an event whose entry, still in a
\* heap, carries the priority it was pushed with
C34_Witness ==
    /\ last.op = "update" /\ last.res = "ok"
    /\ \E a \in Actors : \E i \in 1..Len(personal[a]) :
          /\ personal[a][i][4] = last.id
          /\ personal[a][i][1] # events[last.id].priority
\* the actions recorded in the audit trail of event id
AuditActions(id) == {events[id].audit[i].action : i \in 1..Len(events[id].audit)}

\* C35: whatever the order of the actors' claim calls, a claim returns an
\* event only when it is queued with no taker, and makes the caller its taker;
\* a taker is never replaced by another one; and an event gets back to queued
\* with no taker only by being reclaimed in a TTL sweep. So between two
\* reclaims of an event at most one claim returns it.
C35_ClaimExclusive ==
    [][\A id \in Stored :
          /\ (last'.op = "claim" /\ last'.res = "ok" /\ last'.id = id) =>
                /\ events[id].state = "queued"
                /\ events[id].taker = None
                /\ events'[id].taker = last'.actor
          /\ events[id].taker # None =>
                events'[id].taker \in {events[id].taker, None}
          /\ (events[id].taker # None /\ events'[id].taker = None) =>
                /\ last'.op = "check_claim_ttl"
                /\ id \in Range(last'.ret)
          /\ (events[id].state # "queued" /\ events'[id].state = "queued") =>
                /\ last'.op = "check_claim_ttl"
                /\ id \in Range(last'.ret)]_vars

\* an event was claimed, reclaimed by the sweep and fanned out again, then
\* claimed by one subscribed actor; the claim of another subscribed actor the
\* event is relevant to has come back empty
C35_Witness ==
    /\ last.op = "claim" /\ last.res = "None"
    /\ last.actor \in Range(sub_order)
    /\ \E y \in Stored :
          /\ events[y].state = "claimed"
          /\ events[y].taker \notin {None, last.actor}
          /\ "claim_timeout" \in AuditActions(y)
          /\ Relevant(events[y], subscriptions[last.actor])
\* actor a holds a heap entry of event id
HasEntry(a, id) == \E i \in 1..Len(personal[a]) : personal[a][i][4] = id

\* C37: while alice keeps calling claim and no more than MaxEvents events are
\* fanned out, every event that has an entry in alice's heap and is queued is
\* eventually returned to alice by claim, unless it leaves state queued some
\* other way; and no peek or claim lengthens the caller's heap, a claim that
\* returns an event shortening it.
C37_QueuedWorkReturned ==
    /\ [][\A a \in Actors :
            (last'.op \in {"peek", "claim"} /\ last'.actor = a) =>
               /\ Len(personal'[a]) <= Len(personal[a])
               /\ (last'.op = "claim" /\ last'.res = "ok") =>
                     Len(personal'[a]) < Len(personal[a])]_vars
    /\ \A id \in Ids :
          (id \in Stored /\ HasEntry("alice", id) /\ events[id].state = "queued")
             ~> \/ /\ last.op = "claim" /\ last.actor = "alice"
                    /\ last.res = "ok" /\ last.id = id
                \/ id \in Stored /\ events[id].state # "queued"

\* alice's claim has returned an event that waited in her heap behind
\* another event, which she claimed before it
C37_Witness ==
    /\ last.op = "claim" /\ last.actor = "alice" /\ last.res = "ok"
    /\ \E y \in Stored \ {last.id} :
          /\ events[y].taker = "alice"
          /\ events[y].priority <= events[last.id].priority
\* C38: right after peek(a) the head of a's heap is the entry of the event
\* returned, an event that is queued or is a's own suspended one (the heap is
\* empty when peek returned None), so that a second peek(a) returns the same
\* event and removes nothing; a peek(a) that follows a peek(a) returns the
\* same and leaves every heap as it is; and a claim(a) that follows a peek(a)
\* which returned a queued event returns that event.
C38_PeekClaimAgree ==
    /\ [](last.op = "peek" =>
             LET h == personal[last.actor]
             IN IF last.res = "ok"
                THEN /\ h # <<>>
                     /\ Head(h)[4] = last.id
                     /\ last.id \in Stored
                     /\ \/ events[last.id].state = "queued"
                        \/ /\ events[last.id].state = "suspended"
                           /\ events[last.id].taker = last.actor
                ELSE h = <<>>)
    /\ [][(last.op = "peek" /\ last'.op = "peek" /\ last'.actor = last.actor) =>
             /\ last'.res = last.res
             /\ last'.id = last.id
             /\ personal' = personal]_vars
    /\ [][(/\ last.op = "peek" /\ last.res = "ok"
            /\ events[last.id].state = "queued"
            /\ last'.op = "claim" /\ last'.actor = last.actor) =>
             /\ last'.res = "ok"
             /\ last'.id = last.id]_vars

\* peek returned a queued event that has another queued event waiting behind
\* it in the heap
C38_Witness ==
    /\ last.op = "peek" /\ last.res = "ok"
    /\ events[last.id].state = "queued"
    /\ Len(personal[last.actor]) >= 2
    /\ events[personal[last.actor][2][4]].state = "queued"
    /\ personal[last.actor][2][4] # last.id
\* C39: unsubscribe changes no heap and no event; claim returns an event to
\* the actor whenever its heap holds an entry of a queued event, whatever the
\* actor's scope set is by then; and a spawned event whose audience contains
\* shipwide gets an entry in the heap of every actor that has ever subscribed,
\* whatever is left of its scope set.
C39_UnsubscribeNotRetroactive ==
    [][/\ last'.op = "unsubscribe" => personal' = personal /\ events' = events
       /\ last'.op = "claim" =>
             LET h == personal[last'.actor]
             IN (\E i \in 1..Len(h) : /\ h[i][4] \in Stored
                                       /\ events[h[i][4]].state = "queued") =>
                   /\ last'.res = "ok"
                   /\ \E i \in 1..Len(h) : h[i][4] = last'.id
       /\ (/\ last'.op = "spawn" /\ last'.res = "ok"
           /\ "shipwide" \in Range(events'[last'.id].audience_scope)) =>
             \A a \in Range(sub_order) :
                \E i \in 1..Len(personal'[a]) : personal'[a][i][4] = last'.id]_vars

\* a shipwide event has just been spawned and pushed onto the heap of an actor
\* that had unsubscribed from every scope it held, shipwide included; the heap
\* still holds the entry of a queued event that is not shipwide, pushed while
\* the actor held one of that event's scopes
C39_Witness ==
    /\ last.op = "spawn" /\ last.res = "ok"
    /\ "shipwide" \in Range(events[last.id].audience_scope)
    /\ \E a \in Range(sub_order) :
          /\ request.actor = a
          /\ "shipwide" \in Range(request.scopes)
          /\ subscriptions[a] = {}
          /\ HasEntry(a, last.id)
          /\ \E y \in Stored \ {last.id} :
                /\ "shipwide" \notin Range(events[y].audience_scope)
                /\ events[y].state = "queued"
                /\ HasEntry(a, y)
\* the identifiers that occur an odd number of times in ids
OddIds(ids) ==
    {o \in Range(ids) : Cardinality({i \in 1..Len(ids) : ids[i] = o}) % 2 = 1}

RECURSIVE XorOver(_)
\* the XOR of the digests of a set of identifiers
XorOver(S) ==
    IF S = {} THEN 0
    ELSE LET o == CHOOSE x \in S : TRUE
         IN Xor(Digest(o), XorOver(S \ {o}), HashBits)

\* C40: the state seed_for seeds its PRNG with is the save seed modulo
\* 2^HashBits XOR-ed with the digests of the identifiers that occur an odd
\* number of times; so the order of the identifiers does not matter, an
\* identifier passed twice cancels, and congruent save seeds give the same
\* PRNG.
C40_SeedForXor ==
    rng.called =>
       /\ rng.state = Xor(rng.save_seed % (2 ^ HashBits), XorOver(OddIds(rng.ids)),
                          HashBits)
       /\ (Len(rng.ids) = 2 /\ rng.ids[1] = rng.ids[2]) =>
             rng.state = rng.save_seed % (2 ^ HashBits)
       /\ rng.ids = <<>> => rng.state = rng.save_seed % (2 ^ HashBits)

\* seed_for was called with an identifier passed twice and a save seed beyond
\* the modulus, and returned the PRNG of the reduced save seed alone
C40_Witness ==
    /\ rng.called
    /\ Len(rng.ids) = 2 /\ rng.ids[1] = rng.ids[2]
    /\ rng.save_seed >= 2 ^ HashBits
    /\ rng.state = rng.save_seed - 2 ^ HashBits
====
